---- MODULE Spec2Model ----
(***************************************************************************)
(* A model of zerobrew's materialize-and-link engine:                      *)
(*   - the metadata Database of zb_io/src/storage/db.rs (installed_kegs,   *)
(*     store_refs, keg_files) and its InstallTransaction handle;           *)
(*   - the Installer orchestration (execute / uninstall / gc) on top of    *)
(*     it, at the level of which directories and rows exist;               *)
(*   - the Cellar's materialize, remove_keg and the Linux relocation       *)
(*     passes at the level of inodes, contents and mode bits;              *)
(*   - find_bottle_content, the text substitution of both platforms and    *)
(*     the RUNPATH rewrite as functions of their inputs;                   *)
(*   - the parallel binary pass, closure step by closure step.             *)
(*   - glibc detection, the ELF interpreter choice, the Mach-O string pass, *)
(*     the version self-correction, the CLI's exit status and the migration *)
(*     categorization as functions of their inputs.                        *)
(***************************************************************************)
EXTENDS Integers, Sequences, FiniteSets, TLC

(***************************************************************************)
(* Input domains and bounds                                                *)
(***************************************************************************)
Names    == {"bar", "foo"}
Versions == {"1.0.0", "2.0.0"}
Keys     == {"key1", "key2"}
Paths    == {"bin/tool"}

\* Largest refcount a store_refs row is driven to (guards record_install).
MaxRefcount == 2
\* Most mutating calls made inside one transaction handle.
MaxTxOps == 2

\* installed_at: seconds since the epoch at the time of record_install.
Now == 1

\* Byte order of the names, as SQLite's BINARY collation compares them.
NameRank == [n \in Names |-> IF n = "bar" THEN 1 ELSE 2]

(***************************************************************************)
(* Partial functions (tables keyed by their primary key)                   *)
(***************************************************************************)
EmptyFn == [x \in {} |-> 0]

Put(f, k, v) == [x \in (DOMAIN f) \cup {k} |-> IF x = k THEN v ELSE f[x]]

Del(f, S) == [x \in (DOMAIN f) \ S |-> f[x]]

(***************************************************************************)
(* Database: the three tables created by init_schema                       *)
(***************************************************************************)
\* installed_kegs: name -> row; store_refs: store_key -> refcount;
\* keg_files: <<name, linked_path>> -> row.  All empty after open().
init_schema == [kegs |-> EmptyFn, refs |-> EmptyFn, files |-> EmptyFn]

\* SELECT ... FROM installed_kegs WHERE name = ?1, .ok()
get_installed(d, name) ==
    IF name \in DOMAIN d.kegs
    THEN <<[name |-> name, version |-> d.kegs[name].version,
            store_key |-> d.kegs[name].store_key,
            installed_at |-> d.kegs[name].installed_at]>>
    ELSE <<>>

RECURSIVE SortByName(_)
SortByName(S) ==
    IF S = {} THEN <<>>
    ELSE LET m == CHOOSE n \in S : \A o \in S : NameRank[n] <= NameRank[o]
         IN  <<m>> \o SortByName(S \ {m})

\* SELECT ... FROM installed_kegs ORDER BY name
list_installed(d) ==
    LET order == SortByName(DOMAIN d.kegs)
    IN  [i \in 1..Len(order) |->
            [name |-> order[i], version |-> d.kegs[order[i]].version,
             store_key |-> d.kegs[order[i]].store_key,
             installed_at |-> d.kegs[order[i]].installed_at]]

\* SELECT refcount FROM store_refs WHERE store_key = ?1, .unwrap_or(0)
get_store_refcount(d, store_key) ==
    IF store_key \in DOMAIN d.refs THEN d.refs[store_key] ELSE 0

\* As get_unreferenced_store_keys, selecting only negative refcounts.
get_unreferenced_store_keys_negative(d) ==
    {k \in DOMAIN d.refs : d.refs[k] < 0}

\* SELECT store_key FROM store_refs WHERE refcount <= 0
get_unreferenced_store_keys(d) ==
    {k \in DOMAIN d.refs : d.refs[k] <= 0}

(***************************************************************************)
(* InstallTransaction primitives, as functions of the transaction's state  *)
(***************************************************************************)
\* As record_install, with the store_refs row replaced instead of incremented.
record_install_replace_ref(d, name, version, store_key, now) ==
    [d EXCEPT
       !.kegs = Put(d.kegs, name, [version |-> version, store_key |-> store_key,
                                   installed_at |-> now]),
       !.refs = Put(d.refs, store_key, 1)]

\* INSERT OR REPLACE INTO installed_kegs ...; then
\* INSERT INTO store_refs (store_key, 1) ON CONFLICT DO UPDATE refcount + 1
record_install(d, name, version, store_key, now) ==
    [d EXCEPT
       !.kegs = Put(d.kegs, name, [version |-> version, store_key |-> store_key,
                                   installed_at |-> now]),
       !.refs = Put(d.refs, store_key,
                    IF store_key \in DOMAIN d.refs THEN d.refs[store_key] + 1
                    ELSE 1)]

\* INSERT OR REPLACE INTO keg_files (name, version, linked_path, target_path)
record_linked_file(d, name, version, linked_path, target_path) ==
    [d EXCEPT
       !.files = Put(d.files, <<name, linked_path>>,
                     [version |-> version, target_path |-> target_path])]

\* As uninstall_result, with the SELECT finding no row.
uninstall_result_not_found(d, name) == <<>>

\* The store key record_uninstall returns: <<key>> for Some(key), <<>> for None.
uninstall_result(d, name) ==
    IF name \in DOMAIN d.kegs THEN <<d.kegs[name].store_key>> ELSE <<>>

\* As record_uninstall, without the DELETE FROM keg_files.
record_uninstall_keeps_files(d, name) ==
    LET found == uninstall_result(d, name)
        refs1 == IF found # <<>> /\ found[1] \in DOMAIN d.refs
                 THEN [d.refs EXCEPT ![found[1]] = @ - 1]
                 ELSE d.refs
    IN  [kegs  |-> Del(d.kegs, {name}),
         refs  |-> refs1,
         files |-> d.files]

\* As record_uninstall, with the UPDATE of store_refs run without its WHERE
\* clause when the SELECT found no key.
record_uninstall_update_all(d, name) ==
    LET found == uninstall_result(d, name)
        refs1 == IF found # <<>> /\ found[1] \in DOMAIN d.refs
                 THEN [d.refs EXCEPT ![found[1]] = @ - 1]
                 ELSE IF found = <<>> THEN [k \in DOMAIN d.refs |-> d.refs[k] - 1]
                 ELSE d.refs
    IN  [kegs  |-> Del(d.kegs, {name}),
         refs  |-> refs1,
         files |-> Del(d.files, {nf \in DOMAIN d.files : nf[1] = name})]

\* SELECT store_key; DELETE FROM installed_kegs; DELETE FROM keg_files;
\* UPDATE store_refs SET refcount = refcount - 1 if a key was found.
record_uninstall(d, name) ==
    LET found == uninstall_result(d, name)
        refs1 == IF found # <<>> /\ found[1] \in DOMAIN d.refs
                 THEN [d.refs EXCEPT ![found[1]] = @ - 1]
                 ELSE d.refs
    IN  [kegs  |-> Del(d.kegs, {name}),
         refs  |-> refs1,
         files |-> Del(d.files, {nf \in DOMAIN d.files : nf[1] = name})]

(***************************************************************************)
(* State                                                                   *)
(***************************************************************************)
VARIABLES
    disk,       \* the committed database: what a reader outside a transaction sees
    txOpen,     \* TRUE while an InstallTransaction handle is alive
    tx,         \* the state inside the open transaction (disk plus its writes)
    nops,       \* mutating calls made in the current / most recent transaction
    last,       \* the most recent operation and how it ended
    storeDirs,  \* store keys whose StoreEntry directory <root>/store/<key>/ exists
    kegDirs,    \* <<name, version>> whose keg directory exists in the Cellar
    links,      \* symlinks in the prefix: linked_path -> target <<name, version, path>>
    gcRemoved,  \* the keys returned by the most recent gc()
    entries,    \* store keys whose StoreEntry tree is on the filesystem
    inodes,     \* inode -> [content, mode] of every regular file
    kegTree,    \* <<name, version>> -> (relative path -> inode) of each keg
    matArgs,    \* <<name, version, store key>> of the most recent materialize
    fbc,        \* one call of find_bottle_content: its arguments and its result
    txt,        \* one file under the text pass: platform, new prefix, content, runs
    rpath,      \* one dynamic ELF under the ELF pass: its RPATH entries, its RUNPATH
    platform,   \* target_os of the build running the parallel binary pass
    pc,         \* collected path -> the step its par_iter closure has reached
    pathIno,    \* path of the keg directory -> inode it names
    data,       \* inode -> content of the file
    buf,        \* collected path -> the patched image its closure holds in memory
    processed_inodes,   \* the HashSet behind the Mutex
    patch_failures,     \* the AtomicUsize
    passResult, \* what the pass returned to materialize
    call        \* one call of a function: its name, its arguments, its result

dbVars   == <<disk, txOpen, tx, nops>>
instVars == <<storeDirs, kegDirs, links, gcRemoved>>
fsVars   == <<entries, inodes, kegTree, matArgs>>
passVars == <<platform, pc, pathIno, data, buf, processed_inodes, patch_failures,
              passResult>>
unitVars == <<fbc, txt, rpath, passVars, call>>
vars     == <<disk, txOpen, tx, nops, last, storeDirs, kegDirs, links, gcRemoved,
              entries, inodes, kegTree, matArgs, fbc, txt, rpath, platform, pc,
              pathIno, data, buf, processed_inodes, patch_failures, passResult,
              call>>

\* The database, the store and the Cellar after construction.
CellarIdle ==
    /\ disk = init_schema
    /\ txOpen = FALSE
    /\ tx = init_schema
    /\ nops = 0
    /\ last = "none"
    /\ storeDirs = {}
    /\ kegDirs = {}
    /\ links = EmptyFn
    /\ gcRemoved = {}
    /\ entries = {}
    /\ inodes = EmptyFn
    /\ kegTree = EmptyFn
    /\ matArgs = <<>>

\* No function call under evaluation.
CallIdle ==
    call = [fn |-> "none", args |-> <<>>, result |-> <<>>, done |-> FALSE]

\* No call of find_bottle_content under way.
FbcIdle ==
    fbc = [entry |-> EmptyFn, name |-> "foo", version |-> "1.0.0",
           read_ok |-> TRUE, result |-> <<>>, done |-> FALSE]

\* No file under the text pass.
TxtIdle ==
    txt = [platform |-> "linux", prefix |-> <<>>, content |-> <<>>, runs |-> 0]

\* No ELF under the RUNPATH rewrite.
RpathIdle ==
    rpath = [prefix |-> <<>>, old_rpaths |-> <<>>, runpath |-> <<>>, done |-> FALSE]

\* No parallel pass under way.
PassIdle ==
    /\ platform = "linux"
    /\ pc = EmptyFn
    /\ pathIno = EmptyFn
    /\ data = EmptyFn
    /\ buf = EmptyFn
    /\ processed_inodes = {}
    /\ patch_failures = 0
    /\ passResult = "none"

Init ==
    /\ CellarIdle
    /\ CallIdle
    /\ FbcIdle
    /\ TxtIdle
    /\ RpathIdle
    /\ PassIdle

(***************************************************************************)
(* Database API used directly (as the unit tests of db.rs do)              *)
(***************************************************************************)
\* Database::transaction: BEGIN on the single connection.  The handle borrows
\* the Database mutably, so no reader runs while it is alive.
Transaction ==
    /\ ~txOpen
    /\ txOpen' = TRUE
    /\ tx' = disk
    /\ nops' = 0
    /\ last' = "open"
    /\ UNCHANGED <<disk, instVars, fsVars, unitVars>>

RecordInstall ==
    /\ txOpen /\ nops < MaxTxOps
    /\ \E n \in Names, v \in Versions, k \in Keys :
          /\ get_store_refcount(tx, k) < MaxRefcount
          /\ tx' = record_install(tx, n, v, k, Now)
    /\ nops' = nops + 1
    /\ UNCHANGED <<disk, txOpen, last, instVars, fsVars, unitVars>>

RecordLinkedFile ==
    /\ txOpen /\ nops < MaxTxOps
    /\ \E n \in Names, v \in Versions, p \in Paths :
          tx' = record_linked_file(tx, n, v, p, <<n, v, p>>)
    /\ nops' = nops + 1
    /\ UNCHANGED <<disk, txOpen, last, instVars, fsVars, unitVars>>

\* record_linked_file as Installer::execute calls it: for the (name,
\* version) a record_install of the open transaction has recorded.  The row
\* of n in the transaction is then not the committed one.
RecordLinkedFileOfInstall ==
    /\ txOpen /\ nops < MaxTxOps
    /\ \E n \in DOMAIN tx.kegs, p \in Paths :
          LET v == tx.kegs[n].version
          IN  /\ IF n \in DOMAIN disk.kegs THEN disk.kegs[n] # tx.kegs[n] ELSE TRUE
              /\ tx' = record_linked_file(tx, n, v, p, <<n, v, p>>)
    /\ nops' = nops + 1
    /\ UNCHANGED <<disk, txOpen, last, instVars, fsVars, unitVars>>

RecordUninstall ==
    /\ txOpen /\ nops < MaxTxOps
    /\ \E n \in Names : tx' = record_uninstall(tx, n)
    /\ nops' = nops + 1
    /\ UNCHANGED <<disk, txOpen, last, instVars, fsVars, unitVars>>

\* As Commit, publishing the installed_kegs writes only.
CommitKegsOnly ==
    /\ txOpen
    /\ disk' = [disk EXCEPT !.kegs = tx.kegs]
    /\ txOpen' = FALSE
    /\ tx' = init_schema
    /\ last' = "committed"
    /\ UNCHANGED <<nops, instVars, fsVars, unitVars>>

\* InstallTransaction::commit succeeding: COMMIT publishes every write.
Commit ==
    /\ txOpen
    /\ disk' = tx
    /\ txOpen' = FALSE
    /\ tx' = init_schema
    /\ last' = "committed"
    /\ UNCHANGED <<nops, instVars, fsVars, unitVars>>

\* InstallTransaction::commit returning Err: the handle is consumed and the
\* still-active transaction is rolled back when it is dropped.
CommitFails ==
    /\ txOpen
    /\ txOpen' = FALSE
    /\ tx' = init_schema
    /\ last' = "commit_failed"
    /\ UNCHANGED <<disk, nops, instVars, fsVars, unitVars>>

\* As Drop, with the refcount writes surviving the rollback.
DropKeepsRefs ==
    /\ txOpen
    /\ disk' = [disk EXCEPT !.refs = tx.refs]
    /\ txOpen' = FALSE
    /\ tx' = init_schema
    /\ last' = "dropped"
    /\ UNCHANGED <<nops, instVars, fsVars, unitVars>>

\* Dropping the handle without commit: ROLLBACK.
Drop ==
    /\ txOpen
    /\ txOpen' = FALSE
    /\ tx' = init_schema
    /\ last' = "dropped"
    /\ UNCHANGED <<disk, nops, instVars, fsVars, unitVars>>

(***************************************************************************)
(* Installer: execute, uninstall, gc                                       *)
(***************************************************************************)
\* The keg file a link at linked_path p of keg (n, v) points to.
KegTarget(n, v, p) == <<n, v, p>>

\* The transaction body of execute for one formula: record_install, then
\* record_linked_file for each link created.
RecordFormula(d, n, v, k, L) ==
    LET d1 == record_install(d, n, v, k, Now)
    IN  [d1 EXCEPT !.files =
            [nf \in (DOMAIN d1.files) \cup {<<n, p>> : p \in L} |->
                IF nf[1] = n /\ nf[2] \in L
                THEN [version |-> v, target_path |-> KegTarget(n, v, nf[2])]
                ELSE d1.files[nf]]]

\* Installer::execute for a plan of one formula n at version v whose bottle
\* has store key k and links the paths L; every step succeeds.
Execute ==
    /\ ~txOpen
    /\ \E n \in Names, v \in Versions, k \in Keys, L \in SUBSET Paths :
          /\ get_store_refcount(disk, k) < MaxRefcount
          /\ L \cap DOMAIN links = {}
          /\ storeDirs' = storeDirs \cup {k}
          /\ kegDirs' = kegDirs \cup {<<n, v>>}
          /\ links' = [p \in (DOMAIN links) \cup L |->
                          IF p \in L THEN KegTarget(n, v, p) ELSE links[p]]
          /\ disk' = RecordFormula(disk, n, v, k, L)
    /\ last' = "execute"
    /\ UNCHANGED <<txOpen, tx, nops, gcRemoved, fsVars, unitVars>>

\* Installer::execute failing before commit at the given step: the store
\* entry is already populated, the transaction is dropped and the keg
\* directory is deleted if this call created it.
ExecuteFails ==
    /\ ~txOpen
    /\ \E n \in Names, v \in Versions, k \in Keys, L \in SUBSET Paths,
          step \in {"materialize", "link", "commit"} :
          /\ step = "link" => L \cap DOMAIN links # {}
          /\ storeDirs' = storeDirs \cup {k}
          /\ kegDirs' = kegDirs
          /\ links' = IF step = "commit" /\ L \cap DOMAIN links = {}
                      THEN [p \in (DOMAIN links) \cup L |->
                               IF p \in L THEN KegTarget(n, v, p) ELSE links[p]]
                      ELSE links
    /\ last' = "execute_failed"
    /\ UNCHANGED <<disk, txOpen, tx, nops, gcRemoved, fsVars, unitVars>>

\* Installer::uninstall of an installed name: unlink, remove_keg,
\* record_uninstall, commit.
Uninstall ==
    /\ ~txOpen
    /\ \E n \in DOMAIN disk.kegs :
          LET v == disk.kegs[n].version
              recorded == {p \in Paths : <<n, p>> \in DOMAIN disk.files
                                          /\ disk.files[<<n, p>>].version = v}
          IN  /\ links' = Del(links, recorded)
              /\ kegDirs' = kegDirs \ {<<n, v>>}
              /\ disk' = record_uninstall(disk, n)
    /\ last' = "uninstall"
    /\ UNCHANGED <<txOpen, tx, nops, storeDirs, gcRemoved, fsVars, unitVars>>

\* Installer::uninstall failing at the given step: the steps before it have
\* acted on the file system (an unlink that fails may have removed some of
\* the links), the transaction is dropped and the database rolled back.
UninstallFails ==
    /\ ~txOpen
    /\ \E n \in DOMAIN disk.kegs,
          step \in {"unlink", "remove_keg", "record_uninstall", "commit"} :
          LET v == disk.kegs[n].version
              recorded == {p \in Paths : <<n, p>> \in DOMAIN disk.files
                                          /\ disk.files[<<n, p>>].version = v}
          IN  /\ \E R \in SUBSET recorded :
                    /\ step # "unlink" => R = recorded
                    /\ links' = Del(links, R)
              /\ kegDirs' = IF step \in {"record_uninstall", "commit"}
                            THEN kegDirs \ {<<n, v>>}
                            ELSE kegDirs
    /\ last' = "uninstall_failed"
    /\ UNCHANGED <<disk, txOpen, tx, nops, storeDirs, gcRemoved, fsVars, unitVars>>

\* Installer::gc: one read of the keys with refcount <= 0; for each, remove
\* the StoreEntry directory and delete the StoreRef row; return the keys.
Gc ==
    /\ ~txOpen
    /\ LET keys == get_unreferenced_store_keys(disk)
       IN  /\ storeDirs' = storeDirs \ keys
           /\ disk' = [disk EXCEPT !.refs = Del(disk.refs, keys)]
           /\ gcRemoved' = keys
    /\ last' = "gc"
    /\ UNCHANGED <<txOpen, tx, nops, kegDirs, links, fsVars, unitVars>>

(***************************************************************************)
(* Cellar: materialize and the Linux relocation passes, file by file       *)
(***************************************************************************)
\* A store key is the fingerprint of a bottle, so it fixes the tree of the
\* source root: relative path -> directory, symbolic link with its target,
\* or regular file with content and mode.  The mode is the set of
\* owner-write ("w") and execute ("x") bits; content is what the passes
\* distinguish:
\*   "elf_dyn"      ELF with PT_DYNAMIC, RUNPATH not yet rewritten
\*   "elf_patched"  the same ELF as written back by the ELF pass
\*   "elf_static"   ELF without PT_DYNAMIC
\*   "text_ph"      UTF-8 text holding @@HOMEBREW_PREFIX@@ / @@HOMEBREW_CELLAR@@
\*   "text_patched" that text after substitution
\*   "text_plain"   UTF-8 text without placeholder
StoreKeys == Keys \cup {"key3"}

RegularFile(c, m) == [kind |-> "file", content |-> c, mode |-> m]

Bottle ==
    [k \in StoreKeys |->
        IF k = "key1"
        THEN [f \in {"bin/tool", "etc/conf"} |->
                 IF f = "bin/tool" THEN RegularFile("elf_dyn", {"x"})
                 ELSE RegularFile("text_ph", {})]
        ELSE IF k = "key2"
        THEN [f \in {"bin/tool"} |-> RegularFile("elf_static", {"x"})]
        ELSE [f \in {"bin/run", "bin/r", "share"} |->
                 IF f = "bin/run" THEN RegularFile("text_plain", {"x"})
                 ELSE IF f = "bin/r" THEN [kind |-> "symlink", target |-> "run"]
                 ELSE [kind |-> "dir"]]]

\* The regular files of the source root of entry k.
BottleFiles(k) == {f \in DOMAIN Bottle[k] : Bottle[k][f].kind = "file"}

\* The kegs materialized: two versions of one formula and another formula.
CellarKegs == {<<"foo", "1.0.0">>, <<"foo", "2.0.0">>, <<"bar", "1.0.0">>}

\* The inode of a file of a StoreEntry, and the inode created for a keg path.
StoreInode(k, f) == <<"store", k, f>>
KegInode(n, v, f) == <<"keg", n, v, f>>

\* magic == *b"\x7fELF"
is_elf(content) == content \in {"elf_dyn", "elf_patched", "elf_static"}

\* buf[..n].contains(&0): every ELF header holds NUL bytes in e_ident.
has_nul(content) == is_elf(content)

\* original_mode & 0o200 == 0
is_readonly(mode) == "w" \notin mode

\* entry.file_type().is_file() on an entry of a keg tree: a regular file is
\* held as its inode, a directory as <<"dir">>, a symbolic link as
\* <<"symlink", target>>.
is_file(t) == t[1] \in {"store", "keg"}

\* The download collaborator writes the bottle's tree into the store.
Populate ==
    /\ \E k \in StoreKeys \ entries :
          /\ entries' = entries \cup {k}
          /\ inodes' = [i \in (DOMAIN inodes) \cup
                               {StoreInode(k, f) : f \in BottleFiles(k)} |->
                          IF i \in DOMAIN inodes THEN inodes[i]
                          ELSE [content |-> Bottle[k][i[3]].content,
                                mode    |-> Bottle[k][i[3]].mode]]
    /\ last' = "populate"
    /\ UNCHANGED <<dbVars, instVars, unitVars, kegTree, matArgs>>

\* As copy_dir_recursive, with a byte copy created under the default mode
\* instead of the source's permission bits.
copy_dir_recursive_default_mode(ino, n, v, k, hl) ==
    LET files == BottleFiles(k)
        tree  == [f \in DOMAIN Bottle[k] |->
                     IF Bottle[k][f].kind = "dir" THEN <<"dir">>
                     ELSE IF Bottle[k][f].kind = "symlink"
                          THEN <<"symlink", Bottle[k][f].target>>
                     ELSE IF hl[f] THEN StoreInode(k, f) ELSE KegInode(n, v, f)]
        made  == {KegInode(n, v, f) : f \in {g \in files : ~hl[g]}}
    IN  [tree |-> tree,
         ino  |-> [i \in (DOMAIN ino) \cup made |->
                      IF i \in made
                      THEN [content |-> ino[StoreInode(k, i[4])].content,
                            mode    |-> {"w"}]
                      ELSE ino[i]]]

\* copy_dir_recursive(src, dst, true) of the source root of entry k into the
\* keg (n, v): a directory is created and recursed into, a symbolic link is
\* re-created from read_link, and for a regular file f, hl[f] tells whether
\* fs::hard_link succeeds; otherwise fs::copy creates a new file with the
\* source's bytes and permission bits.
copy_dir_recursive(ino, n, v, k, hl) ==
    LET files == BottleFiles(k)
        tree  == [f \in DOMAIN Bottle[k] |->
                     IF Bottle[k][f].kind = "dir" THEN <<"dir">>
                     ELSE IF Bottle[k][f].kind = "symlink"
                          THEN <<"symlink", Bottle[k][f].target>>
                     ELSE IF hl[f] THEN StoreInode(k, f) ELSE KegInode(n, v, f)]
        made  == {KegInode(n, v, f) : f \in {g \in files : ~hl[g]}}
    IN  [tree |-> tree,
         ino  |-> [i \in (DOMAIN ino) \cup made |->
                      IF i \in made THEN ino[StoreInode(k, i[4])] ELSE ino[i]]]

\* As elf_pass_file, without the set_permissions after the rename: the path
\* keeps the mode File::create gave the temp file.
elf_pass_file_no_restore(st, n, v, f) ==
    LET i    == st.tree[f]
        orig == st.ino[i].mode
        ino1 == IF is_readonly(orig)
                THEN [st.ino EXCEPT ![i].mode = orig \cup {"w"}]
                ELSE st.ino
    IN  IF ~is_elf(st.ino[i].content) THEN st
        ELSE IF st.ino[i].content = "elf_static" THEN [st EXCEPT !.ino = ino1]
        ELSE [tree |-> [st.tree EXCEPT ![f] = KegInode(n, v, f)],
              ino  |-> Put(ino1, KegInode(n, v, f),
                           [content |-> "elf_patched", mode |-> {"w"}])]

\* patch_elf_placeholders on one collected ELF path f of keg (n, v): chmod
\* +w if read-only, parse, return early without PT_DYNAMIC, otherwise write
\* the patched ELF to a sibling temp file, rename it over the path and set
\* the original mode on it.
elf_pass_file(st, n, v, f) ==
    LET i    == st.tree[f]
        orig == st.ino[i].mode
        ino1 == IF is_readonly(orig)
                THEN [st.ino EXCEPT ![i].mode = orig \cup {"w"}]
                ELSE st.ino
    IN  IF ~is_elf(st.ino[i].content) THEN st
        ELSE IF st.ino[i].content = "elf_static" THEN [st EXCEPT !.ino = ino1]
        ELSE [tree |-> [st.tree EXCEPT ![f] = KegInode(n, v, f)],
              ino  |-> Put(ino1, KegInode(n, v, f),
                           [content |-> "elf_patched", mode |-> orig])]

\* patch_text_placeholders on one regular file f of the keg: skip on a NUL
\* in the first 8 KiB or without placeholder; otherwise chmod +w if
\* read-only, fs::write the substituted text in place, restore the mode.
text_pass_file(st, n, v, f) ==
    LET i == st.tree[f]
    IN  IF has_nul(st.ino[i].content) THEN st
        ELSE IF st.ino[i].content # "text_ph" THEN st
        ELSE [st EXCEPT !.ino[i].content = "text_patched"]

RECURSIVE elf_pass(_, _, _, _)
elf_pass(st, n, v, todo) ==
    IF todo = {} THEN st
    ELSE LET f == CHOOSE g \in todo : TRUE
         IN  elf_pass(elf_pass_file(st, n, v, f), n, v, todo \ {f})

RECURSIVE text_pass(_, _, _, _)
text_pass(st, n, v, todo) ==
    IF todo = {} THEN st
    ELSE LET f == CHOOSE g \in todo : TRUE
         IN  text_pass(text_pass_file(st, n, v, f), n, v, todo \ {f})

\* patch_placeholders: the ELF pass, then the text pass, over the keg.
patch_placeholders(st, n, v) ==
    LET afterElf == elf_pass(st, n, v, {f \in DOMAIN st.tree : is_file(st.tree[f])})
    IN  text_pass(afterElf, n, v,
                  {f \in DOMAIN afterElf.tree : is_file(afterElf.tree[f])})

\* Inodes still linked from a store entry or a keg.
Linked(ino, trees) ==
    [i \in {j \in DOMAIN ino :
              \/ j[1] = "store"
              \/ \E kv \in DOMAIN trees : \E f \in DOMAIN trees[kv] :
                     trees[kv][f] = j} |-> ino[i]]

\* The body of materialize after the keg_path.exists() check: copy the
\* source root into the keg, then relocate the keg.
materialize_new(ino, trees, n, v, k, hl) ==
    LET copied  == copy_dir_recursive(ino, n, v, k, hl)
        patched == patch_placeholders(copied, n, v)
        trees1  == Put(trees, <<n, v>>, patched.tree)
    IN  [trees |-> trees1, ino |-> Linked(patched.ino, trees1)]

\* As materialize, without the early return for an existing keg.
materialize_always(ino, trees, n, v, k, hl) ==
    materialize_new(ino, trees, n, v, k, hl)

\* Cellar::materialize(name, version, store_entry)
materialize(ino, trees, n, v, k, hl) ==
    IF <<n, v>> \in DOMAIN trees
    THEN [trees |-> trees, ino |-> ino]
    ELSE materialize_new(ino, trees, n, v, k, hl)

Materialize ==
    /\ \E nv \in CellarKegs, k \in entries :
       \E hl \in [BottleFiles(k) -> BOOLEAN] :
          LET r == materialize(inodes, kegTree, nv[1], nv[2], k, hl)
          IN  /\ kegTree' = r.trees
              /\ inodes' = r.ino
              /\ matArgs' = <<nv[1], nv[2], k>>
    /\ last' = "materialize"
    /\ UNCHANGED <<dbVars, instVars, unitVars, entries>>

\* Cellar::has_keg(name, version): keg_path(name, version).exists()
has_keg(trees, n, v) == <<n, v>> \in DOMAIN trees

\* materialize returning Err out of copy_dir_with_fallback: the keg
\* directory exists (create_dir_all(dst) comes first) and holds the entries
\* copied before the `?` that returned, in read_dir order; nothing removes
\* them and the relocation has not run.
MaterializeFails ==
    /\ \E nv \in CellarKegs, k \in entries :
       \E hl \in [BottleFiles(k) -> BOOLEAN] :
       \E copied_entries \in (SUBSET DOMAIN Bottle[k]) \ {DOMAIN Bottle[k]} :
          /\ ~has_keg(kegTree, nv[1], nv[2])
          /\ LET copied == copy_dir_recursive(inodes, nv[1], nv[2], k, hl)
                 trees1 == Put(kegTree, nv,
                               [f \in copied_entries |-> copied.tree[f]])
             IN  /\ kegTree' = trees1
                 /\ inodes' = Linked(copied.ino, trees1)
          /\ matArgs' = <<nv[1], nv[2], k>>
    /\ last' = "materialize_failed"
    /\ UNCHANGED <<dbVars, instVars, unitVars, entries>>

\* As remove_keg, with the existence check inverted.
remove_keg_unless_exists(ino, trees, n, v) ==
    IF has_keg(trees, n, v)
    THEN [trees |-> trees, ino |-> ino]
    ELSE LET trees1 == Del(trees, {<<n, v>>})
         IN  [trees |-> trees1, ino |-> Linked(ino, trees1)]

\* Cellar::remove_keg(name, version): Ok at once when the keg is absent,
\* otherwise fs::remove_dir_all(keg_path).
remove_keg(ino, trees, n, v) ==
    IF ~has_keg(trees, n, v)
    THEN [trees |-> trees, ino |-> ino]
    ELSE LET trees1 == Del(trees, {<<n, v>>})
         IN  [trees |-> trees1, ino |-> Linked(ino, trees1)]

RemoveKeg ==
    /\ \E nv \in CellarKegs :
          LET r == remove_keg(inodes, kegTree, nv[1], nv[2])
          IN  /\ kegTree' = r.trees
              /\ inodes' = r.ino
              /\ matArgs' = <<nv[1], nv[2]>>
    /\ last' = "remove_keg"
    /\ UNCHANGED <<dbVars, instVars, unitVars, entries>>

(***************************************************************************)
(* find_bottle_content: the source root inside a store entry               *)
(***************************************************************************)
\* A store entry is a tree: path relative to the entry (a sequence of
\* components) -> "dir" or "file".  The shapes drawn: nothing named after a
\* formula (a flat tarball), a file of that name, or a directory of that
\* name holding any mix of files and directories called after a version or
\* after something else.
ChildNames == Versions \cup {"share"}

EntryShape(d, nk, ch) ==
    IF nk = "absent" THEN EmptyFn
    ELSE IF nk = "file" THEN [p \in {<<d>>} |-> "file"]
    ELSE [p \in {<<d>>} \cup {<<d, c>> : c \in {x \in ChildNames : ch[x] # "absent"}} |->
             IF Len(p) = 1 THEN "dir" ELSE ch[p[2]]]

StoreEntryShapes ==
    {EntryShape(d, nk, ch) : d \in Names, nk \in {"absent", "file", "dir"},
                             ch \in [ChildNames -> {"absent", "file", "dir"}]}

\* path.exists() && path.is_dir()
is_dir(entry, p) == p \in DOMAIN entry /\ entry[p] = "dir"

\* fs::read_dir(p): the entries directly under p.
read_dir(entry, p) ==
    {q \in DOMAIN entry : Len(q) = Len(p) + 1 /\ SubSeq(q, 1, Len(p)) = p}

\* find_bottle_content(store_entry, name, version); the result is relative
\* to store_entry, <<>> being the store entry itself.  read_ok tells whether
\* fs::read_dir(entry/name) returns Ok.
find_bottle_content(entry, name, version, read_ok) ==
    LET expected_path == <<name, version>>
        name_path     == <<name>>
        dirs          == {q \in read_dir(entry, name_path) : is_dir(entry, q)}
    IN  IF is_dir(entry, expected_path) THEN expected_path
        ELSE IF is_dir(entry, name_path)
             THEN IF read_ok /\ Cardinality(dirs) = 1
                  THEN CHOOSE q \in dirs : TRUE
                  ELSE name_path
        ELSE <<>>

InitFind ==
    /\ CellarIdle
    /\ CallIdle
    /\ fbc \in [entry : StoreEntryShapes, name : Names, version : Versions,
                 read_ok : BOOLEAN, result : {<<>>}, done : {FALSE}]
    /\ TxtIdle
    /\ RpathIdle
    /\ PassIdle

FindBottleContent ==
    /\ ~fbc.done
    /\ fbc' = [fbc EXCEPT
                  !.result = find_bottle_content(fbc.entry, fbc.name, fbc.version,
                                                 fbc.read_ok),
                  !.done = TRUE]
    /\ UNCHANGED <<dbVars, last, instVars, fsVars, txt, rpath, passVars, call>>

(***************************************************************************)
(* The text pass on one file, as string substitution                       *)
(***************************************************************************)
\* A string is a sequence of pieces, each piece a placeholder token or a
\* run of other characters; no piece overlaps a token or a canonical
\* prefix other than by being equal to it.
Placeholders ==
    {"@@HOMEBREW_PREFIX@@", "@@HOMEBREW_CELLAR@@", "@@HOMEBREW_REPOSITORY@@",
     "@@HOMEBREW_LIBRARY@@", "@@HOMEBREW_PERL@@", "@@HOMEBREW_JAVA@@"}

\* const HOMEBREW_PREFIXES, in the order of the array.
HOMEBREW_PREFIXES ==
    << <<"/opt/homebrew">>, <<"/usr/local", "/Homebrew">>, <<"/usr/local">>,
       <<"/home/linuxbrew", "/.linuxbrew">> >>

\* The pieces file contents are drawn from.
TextPieces == Placeholders \cup {"/opt/homebrew", "/usr/local", "/Homebrew", "/bin"}

\* The prefixes zerobrew is installed under: the default one, one below a
\* canonical Homebrew prefix, and a canonical Homebrew prefix itself.
NewPrefixes == { <<"/opt/zerobrew">>, <<"/usr/local", "/zb">>, <<"/opt/homebrew">> }

\* Longest file content, in pieces.
MaxTextLen == 2
\* Most runs of the text pass over one file.
MaxTextRuns == 2

TextContents == UNION {[1..l -> TextPieces] : l \in 0..MaxTextLen}

\* str::starts_with
starts_with(str, pat) == Len(pat) <= Len(str) /\ SubSeq(str, 1, Len(pat)) = pat

\* str::contains
contains(str, pat) ==
    \E i \in 1..(Len(str) - Len(pat) + 1) : SubSeq(str, i, i + Len(pat) - 1) = pat

\* str::replace(from, to): every non-overlapping match, left to right.
RECURSIVE replace(_, _, _)
replace(str, from, to) ==
    IF str = <<>> THEN <<>>
    ELSE IF starts_with(str, from)
         THEN to \o replace(SubSeq(str, Len(from) + 1, Len(str)), from, to)
    ELSE <<Head(str)>> \o replace(Tail(str), from, to)

\* The new content patch_text_placeholders (Linux) writes for a UTF-8 file
\* without NUL, or the content itself when it returns without writing.
patch_text_placeholders(content, prefix_str, cellar_str) ==
    IF ~contains(content, <<"@@HOMEBREW_PREFIX@@">>)
       /\ ~contains(content, <<"@@HOMEBREW_CELLAR@@">>)
    THEN content
    ELSE replace(replace(content, <<"@@HOMEBREW_PREFIX@@">>, prefix_str),
                 <<"@@HOMEBREW_CELLAR@@">>, cellar_str)

\* The loop over HOMEBREW_PREFIXES from index i on.
RECURSIVE replace_prefixes(_, _, _)
replace_prefixes(content, new_prefix, i) ==
    IF i > Len(HOMEBREW_PREFIXES) THEN content
    ELSE IF HOMEBREW_PREFIXES[i] = new_prefix
         THEN replace_prefixes(content, new_prefix, i + 1)
    ELSE replace_prefixes(replace(content, HOMEBREW_PREFIXES[i], new_prefix),
                          new_prefix, i + 1)

\* The new content patch_text_file_strings (macOS) writes for a UTF-8 file
\* without NUL, or the content itself when it returns without writing.
patch_text_file_strings(content, new_prefix, new_cellar) ==
    IF /\ \A t \in Placeholders : ~contains(content, <<t>>)
       /\ ~contains(content, <<"/opt/homebrew">>)
       /\ ~contains(content, <<"/usr/local">>)
       /\ ~contains(content, <<"/home/linuxbrew">>)
    THEN content
    ELSE LET c1 == replace(content, <<"@@HOMEBREW_PREFIX@@">>, new_prefix)
             c2 == replace(c1, <<"@@HOMEBREW_CELLAR@@">>, new_cellar)
             c3 == replace(c2, <<"@@HOMEBREW_REPOSITORY@@">>, new_prefix)
             c4 == replace(c3, <<"@@HOMEBREW_LIBRARY@@">>, new_prefix \o <<"/Library">>)
             c5 == replace(c4, <<"@@HOMEBREW_PERL@@">>, <<"/usr/bin/perl">>)
             c6 == replace(c5, <<"@@HOMEBREW_JAVA@@">>, <<"/usr/bin/java">>)
         IN  replace_prefixes(c6, new_prefix, 1)

InitText ==
    /\ CellarIdle
    /\ CallIdle
    /\ FbcIdle
    /\ txt \in [platform : {"linux", "macos"}, prefix : NewPrefixes,
                 content : TextContents, runs : {0}]
    /\ RpathIdle
    /\ PassIdle

\* The text pass reaching the file once more.
TextPass ==
    /\ txt.runs < MaxTextRuns
    /\ txt' = [txt EXCEPT
                  !.content =
                      IF txt.platform = "linux"
                      THEN patch_text_placeholders(txt.content, txt.prefix,
                                                   txt.prefix \o <<"/Cellar">>)
                      ELSE patch_text_file_strings(txt.content, txt.prefix,
                                                   txt.prefix \o <<"/Cellar">>),
                  !.runs = txt.runs + 1]
    /\ UNCHANGED <<dbVars, last, instVars, fsVars, fbc, rpath, passVars, call>>

(***************************************************************************)
(* The parallel binary pass: par_iter over the collected files             *)
(***************************************************************************)
\* A path is <<stem, extension>>.  The collected binaries of the keg: two
\* hardlinks of one file and two files that differ in their extension only.
CollectedPaths ==
    {<<"bin/git", "">>, <<"libexec/git", "">>, <<"lib/libz.so", "1">>,
     <<"lib/libz.so", "2">>}

\* The inode each collected path names when the pass starts.
InitialIno ==
    [p \in CollectedPaths |->
        IF p[1] \in {"bin/git", "libexec/git"} THEN "i1"
        ELSE IF p[2] = "1" THEN "i2" ELSE "i3"]

\* The inode the filesystem allocates when the closure of p creates a file.
NewIno ==
    [p \in CollectedPaths |->
        IF p[1] = "bin/git" THEN "t1"
        ELSE IF p[1] = "libexec/git" THEN "t2"
        ELSE IF p[2] = "1" THEN "t3" ELSE "t4"]

\* Threads of the rayon pool.
NumThreads == 2

\* Path::with_extension
with_extension(path, ext) == <<path[1], ext>>

\* The image the closure builds from the bytes it read.
patched_image(content) == <<"patched", content[2]>>

\* Closures that hold a pool thread.
Running == {p \in DOMAIN pc : pc[p] \in {"claimed", "read", "created", "written"}}

\* Files that a path names or a closure holds open.
LiveData(d, paths, bufs) ==
    [i \in {j \in DOMAIN d : (\E q \in DOMAIN paths : paths[q] = j)
                              \/ (\E r \in DOMAIN bufs : bufs[r].fd = j)} |-> d[i]]

InitPass ==
    /\ CellarIdle
    /\ CallIdle
    /\ FbcIdle
    /\ TxtIdle
    /\ RpathIdle
    /\ platform \in {"linux", "macos"}
    /\ pc = [p \in CollectedPaths |-> "start"]
    /\ pathIno = InitialIno
    /\ data = [i \in {InitialIno[p] : p \in CollectedPaths} |-> <<"orig", i>>]
    /\ buf = [p \in CollectedPaths |-> [claimed |-> "", image |-> <<>>, fd |-> ""]]
    /\ processed_inodes = {}
    /\ patch_failures = 0
    /\ passResult = "none"

\* As Dedup, looking the inode up without inserting it.
DedupLookupOnly(p) ==
    /\ platform = "linux"
    /\ pc[p] = "start"
    /\ Cardinality(Running) < NumThreads
    /\ IF pathIno[p] \in processed_inodes
       THEN /\ pc' = [pc EXCEPT ![p] = "skipped"]
            /\ UNCHANGED buf
       ELSE /\ pc' = [pc EXCEPT ![p] = "claimed"]
            /\ buf' = [buf EXCEPT ![p].claimed = pathIno[p]]
    /\ UNCHANGED <<dbVars, last, instVars, fsVars, fbc, txt, rpath, call, platform,
                   pathIno, data, processed_inodes, patch_failures, passResult>>

\* The ELF closure starts on p: fs::metadata, then, holding the lock,
\* processed_inodes.insert((dev, ino)); return if it was there already.
Dedup(p) ==
    /\ platform = "linux"
    /\ pc[p] = "start"
    /\ Cardinality(Running) < NumThreads
    /\ IF pathIno[p] \in processed_inodes
       THEN /\ pc' = [pc EXCEPT ![p] = "skipped"]
            /\ UNCHANGED <<buf, processed_inodes>>
       ELSE /\ pc' = [pc EXCEPT ![p] = "claimed"]
            /\ buf' = [buf EXCEPT ![p].claimed = pathIno[p]]
            /\ processed_inodes' = processed_inodes \cup {pathIno[p]}
    /\ UNCHANGED <<dbVars, last, instVars, fsVars, fbc, txt, rpath, call, platform,
                   pathIno, data, patch_failures, passResult>>

\* patch_macho_binary_strings starts on p: there is no inode set.
BeginMacho(p) ==
    /\ platform = "macos"
    /\ pc[p] = "start"
    /\ Cardinality(Running) < NumThreads
    /\ pc' = [pc EXCEPT ![p] = "claimed"]
    /\ buf' = [buf EXCEPT ![p].claimed = pathIno[p]]
    /\ UNCHANGED <<dbVars, last, instVars, fsVars, fbc, txt, rpath, call, platform,
                   pathIno, data, processed_inodes, patch_failures, passResult>>

\* fs::read(path), parse, and patch in memory.
ReadAndPatch(p) ==
    /\ pc[p] = "claimed"
    /\ buf' = [buf EXCEPT ![p].image = patched_image(data[pathIno[p]])]
    /\ pc' = [pc EXCEPT ![p] = "read"]
    /\ UNCHANGED <<dbVars, last, instVars, fsVars, fbc, txt, rpath, call, platform,
                   pathIno, data, processed_inodes, patch_failures, passResult>>

\* chmod, read or parse returns Err: patch_failures.fetch_add(1).
PatchFails(p) ==
    /\ pc[p] = "claimed"
    /\ pc' = [pc EXCEPT ![p] = "failed"]
    /\ patch_failures' = patch_failures + 1
    /\ UNCHANGED <<dbVars, last, instVars, fsVars, fbc, txt, rpath, call, platform,
                   pathIno, data, buf, processed_inodes, passResult>>

\* File::create(path.with_extension("tmp_patch")): a new empty file, or the
\* file already at that path truncated.
CreateTemp(p) ==
    /\ pc[p] = "read"
    /\ LET temp_path == with_extension(p, "tmp_patch")
           i == IF temp_path \in DOMAIN pathIno THEN pathIno[temp_path] ELSE NewIno[p]
       IN  /\ pathIno' = Put(pathIno, temp_path, i)
           /\ data' = Put(data, i, <<"empty", "">>)
           /\ buf' = [buf EXCEPT ![p].fd = i]
    /\ pc' = [pc EXCEPT ![p] = "created"]
    /\ UNCHANGED <<dbVars, last, instVars, fsVars, fbc, txt, rpath, call, platform,
                   processed_inodes, patch_failures, passResult>>

\* elf.write(&mut temp_file) / write_all, then the handle is dropped.
WriteTemp(p) ==
    /\ pc[p] = "created"
    /\ LET bufs == [buf EXCEPT ![p].fd = ""]
       IN  /\ buf' = bufs
           /\ data' = LiveData([data EXCEPT ![buf[p].fd] = buf[p].image], pathIno, bufs)
    /\ pc' = [pc EXCEPT ![p] = "written"]
    /\ UNCHANGED <<dbVars, last, instVars, fsVars, fbc, txt, rpath, call, platform,
                   pathIno, processed_inodes, patch_failures, passResult>>

\* fs::rename(temp_path, path); Err when the temp path names nothing.
Rename(p) ==
    /\ pc[p] = "written"
    /\ LET temp_path == with_extension(p, "tmp_patch")
       IN  IF temp_path \in DOMAIN pathIno
           THEN LET paths == Del([pathIno EXCEPT ![p] = pathIno[temp_path]], {temp_path})
                IN  /\ pathIno' = paths
                    /\ data' = LiveData(data, paths, buf)
                    /\ pc' = [pc EXCEPT ![p] = "done"]
                    /\ UNCHANGED patch_failures
           ELSE /\ pc' = [pc EXCEPT ![p] = "failed"]
                /\ patch_failures' = patch_failures + 1
                /\ UNCHANGED <<pathIno, data>>
    /\ UNCHANGED <<dbVars, last, instVars, fsVars, fbc, txt, rpath, call, platform,
                   buf, processed_inodes, passResult>>

\* par_iter has joined: patch_elf_placeholders logs the count and returns
\* Ok(()); patch_homebrew_placeholders returns Err when the count is not 0,
\* and materialize returns what the pass returned.
PassReturn ==
    /\ pc # EmptyFn /\ passResult = "none"
    /\ \A p \in DOMAIN pc : pc[p] \in {"skipped", "failed", "done"}
    /\ passResult' = IF platform = "macos" /\ patch_failures > 0 THEN "err" ELSE "ok"
    /\ UNCHANGED <<dbVars, last, instVars, fsVars, fbc, txt, rpath, call, platform,
                   pc, pathIno, data, buf, processed_inodes, patch_failures>>

(***************************************************************************)
(* The RUNPATH the ELF pass writes into one dynamic ELF                    *)
(***************************************************************************)
\* The RPATH/RUNPATH entries bottles carry, as strings of pieces.
RpathEntries ==
    { <<"@@HOMEBREW_PREFIX@@", "/lib">>,
      <<"@@HOMEBREW_PREFIX@@", "/opt", "/lib">>,
      <<"$ORIGIN", "/..", "/lib">>,
      <<"/usr", "/lib">>,
      <<"/opt/homebrew", "/lib">> }

\* Most entries in the RPATH of one ELF.
MaxRpaths == 2

OldRpaths == UNION {[1..l -> RpathEntries] : l \in 0..MaxRpaths}

\* [String]::join(sep)
RECURSIVE join(_, _)
join(list, sep) ==
    IF list = <<>> THEN <<>>
    ELSE IF Len(list) = 1 THEN list[1]
    ELSE list[1] \o <<sep>> \o join(Tail(list), sep)

\* As new_rpaths, without the filter on the substituted entries.
new_rpaths_unfiltered(old_rpaths, new_prefix, lib_path) ==
    LET mapped == [i \in 1..Len(old_rpaths) |->
                      replace(old_rpaths[i], <<"@@HOMEBREW_PREFIX@@">>, new_prefix)]
    IN  IF \E i \in 1..Len(mapped) : mapped[i] = lib_path
        THEN mapped
        ELSE Append(mapped, lib_path)

\* new_rpaths: the old entries with the placeholder replaced, those kept
\* that start with the new prefix or with $ORIGIN, and lib_path pushed
\* unless contained.
new_rpaths(old_rpaths, new_prefix, lib_path) ==
    LET mapped == [i \in 1..Len(old_rpaths) |->
                      replace(old_rpaths[i], <<"@@HOMEBREW_PREFIX@@">>, new_prefix)]
        keep(r) == starts_with(r, new_prefix) \/ starts_with(r, <<"$ORIGIN">>)
        kept   == SelectSeq(mapped, keep)
    IN  IF \E i \in 1..Len(kept) : kept[i] = lib_path
        THEN kept
        ELSE Append(kept, lib_path)

InitRpath ==
    /\ CellarIdle
    /\ CallIdle
    /\ FbcIdle
    /\ TxtIdle
    /\ rpath \in [prefix : NewPrefixes, old_rpaths : OldRpaths, runpath : {<<>>},
                   done : {FALSE}]
    /\ PassIdle

\* elf.set_runpath(new_rpaths.join(":")), called when the string is not empty.
SetRunpath ==
    /\ ~rpath.done
    /\ LET lib_path      == rpath.prefix \o <<"/lib">>
           new_rpath_str == join(new_rpaths(rpath.old_rpaths, rpath.prefix, lib_path), ":")
       IN  rpath' = [rpath EXCEPT
                        !.runpath = IF new_rpath_str # <<>> THEN new_rpath_str ELSE @,
                        !.done = TRUE]
    /\ UNCHANGED <<dbVars, last, instVars, fsVars, fbc, txt, passVars, call>>

(***************************************************************************)
(* The ELF interpreter: detect_zerobrew_glibc, find_system_ld_so and the   *)
(* choice made for one ELF                                                 *)
(***************************************************************************)
\* Names of entries of <prefix>/Cellar/glibc, with their rank in the order
\* of PathBuf::cmp (byte-wise: "2.35" < "2.39" < "2.9").
GlibcVersions == {"2.35", "2.39", "2.9"}

VersionRank == [v \in GlibcVersions |-> IF v = "2.35" THEN 1 ELSE IF v = "2.39" THEN 2 ELSE 3]

\* File names found in a glibc keg's lib directory, as strings of pieces.
LibFiles ==
    { <<"ld-linux", "-x86-64", ".so", ".", "2">>,
      <<"ld64", ".so", ".", "2">>,
      <<"libc", ".so", ".", "6">>,
      <<"ld-linux", ".txt">> }

\* An entry of <prefix>/Cellar/glibc: a plain file, a directory without
\* lib/, or a directory whose lib/ holds the given files.
GlibcEntries ==
    {[kind |-> "file", lib |-> FALSE, files |-> {}],
     [kind |-> "dir", lib |-> FALSE, files |-> {}]}
    \cup {[kind |-> "dir", lib |-> TRUE, files |-> F] : F \in SUBSET LibFiles}

\* <prefix>/Cellar/glibc: absent, or a directory of entries.
GlibcCellars(V) ==
    {[exists |-> FALSE, entries |-> EmptyFn]}
    \cup UNION {[exists : {TRUE}, entries : [W -> GlibcEntries]] : W \in SUBSET V}

\* The three file name tests of detect_zerobrew_glibc.
is_ld_so(filename) ==
    \/ starts_with(filename, <<"ld-linux">>) /\ contains(filename, <<".so">>)
    \/ filename = <<"ld64", ".so", ".", "2">>
    \/ starts_with(filename, <<"ld64", ".so", ".">>)
    \/ starts_with(filename, <<"ld-linux", ".so", ".">>)

\* glibc_versions.sort(); glibc_versions.reverse()
RECURSIVE SortDescending(_)
SortDescending(S) ==
    IF S = {} THEN <<>>
    ELSE LET m == CHOOSE v \in S : \A w \in S : VersionRank[w] <= VersionRank[v]
         IN  <<m>> \o SortDescending(S \ {m})

\* The path of file f in lib/ of version v of the glibc keg.
glibc_path(prefix, v, f) == prefix \o <<"/Cellar/glibc/", v, "/lib/">> \o f

\* The loop over the sorted version directories: the values it can return,
\* one for each file of lib/ that read_dir may yield first among those
\* matching; <<>> is None, <<path>> is Some(path).
RECURSIVE scan_glibc_versions(_, _, _)
scan_glibc_versions(prefix, cellar, order) ==
    IF order = <<>> THEN {<<>>}
    ELSE LET v == Head(order)
             found == {f \in cellar.entries[v].files : is_ld_so(f)}
         IN  IF ~cellar.entries[v].lib \/ found = {}
             THEN scan_glibc_versions(prefix, cellar, Tail(order))
             ELSE {<<glibc_path(prefix, v, f)>> : f \in found}

\* As detect_zerobrew_glibc, looking into the greatest version directory
\* only.
detect_zerobrew_glibc_first_only(prefix, cellar) ==
    LET glibc_versions == {v \in DOMAIN cellar.entries : cellar.entries[v].kind = "dir"}
        order == SortDescending(glibc_versions)
    IN  IF ~cellar.exists THEN {<<>>}
        ELSE IF glibc_versions = {} THEN {<<>>}
        ELSE scan_glibc_versions(prefix, cellar, <<Head(order)>>)

\* detect_zerobrew_glibc(prefix_dir): the values it can return.
detect_zerobrew_glibc(prefix, cellar) ==
    LET glibc_versions == {v \in DOMAIN cellar.entries : cellar.entries[v].kind = "dir"}
    IN  IF ~cellar.exists THEN {<<>>}
        ELSE IF glibc_versions = {} THEN {<<>>}
        ELSE scan_glibc_versions(prefix, cellar, SortDescending(glibc_versions))

InitGlibc ==
    /\ CellarIdle
    /\ FbcIdle
    /\ TxtIdle
    /\ RpathIdle
    /\ PassIdle
    /\ call \in [fn : {"detect_zerobrew_glibc"},
                  args : [prefix : {<<"/opt/zerobrew">>}, cellar : GlibcCellars(GlibcVersions)],
                  result : {<<>>}, done : {FALSE}]

DetectZerobrewGlibc ==
    /\ call.fn = "detect_zerobrew_glibc" /\ ~call.done
    /\ \E r \in detect_zerobrew_glibc(call.args.prefix, call.args.cellar) :
          call' = [call EXCEPT !.result = r, !.done = TRUE]
    /\ UNCHANGED <<dbVars, last, instVars, fsVars, fbc, txt, rpath, passVars>>

(***************************************************************************)
(* linux_patch.rs: the ELF interpreter                                     *)
(***************************************************************************)
\* The candidates of find_system_ld_so, in the order of the array.
SystemLdCandidates ==
    << <<"/lib64/ld-linux-x86-64.so.2">>, <<"/usr/lib64/ld-linux-x86-64.so.2">>,
       <<"/lib/ld-linux-aarch64.so.1">>, <<"/usr/lib/ld-linux-aarch64.so.1">>,
       <<"/lib/ld-linux-armhf.so.3">>, <<"/usr/lib/ld-linux-armhf.so.3">>,
       <<"/lib/ld-linux.so.3">>, <<"/lib/ld-linux.so.2">>,
       <<"/lib64/ld64.so.2">>, <<"/lib64/ld64.so.1">> >>

\* find_system_ld_so(): the first candidate that exists; <<>> is None.
\* exists is the set of paths present on the machine.
find_system_ld_so(exists) ==
    LET hits == {i \in DOMAIN SystemLdCandidates : SystemLdCandidates[i] \in exists}
    IN  IF hits = {} THEN <<>>
        ELSE <<SystemLdCandidates[CHOOSE i \in hits : \A j \in hits : i <= j]>>

\* let target_interpreter: the values it can take.
target_interpreter(prefix, cellar, exists) ==
    { IF zb_ld # <<>> THEN zb_ld ELSE find_system_ld_so(exists) :
        zb_ld \in detect_zerobrew_glibc(prefix, cellar) }

\* The interpreters a binary is shipped with: none, one below the
\* placeholder, a system path.
ElfInterps ==
    { <<>>, << <<"@@HOMEBREW_PREFIX@@", "/lib/ld.so">> >>,
      << <<"/lib64/ld-linux-x86-64.so.2">> >> }

\* The ELF files: e_type, PT_INTERP, whether a PT_DYNAMIC segment exists.
ElfFiles ==
    [e_type : {"ET_EXEC", "ET_DYN", "ET_REL"}, interp : ElfInterps,
     has_dynamic_segment : BOOLEAN]

\* The paths that may exist on the machine beside the glibc keg.
MachinePaths ==
    { <<"/lib64/ld-linux-x86-64.so.2">>, <<"/lib/ld-linux-aarch64.so.1">>,
      <<"/opt/zerobrew", "/lib/ld.so">> }

\* As patch_interpreter, giving every executable the target interpreter.
patch_interpreter_target_only(elf, prefix, cellar, exists) ==
    LET is_executable ==
            \/ elf.e_type = "ET_EXEC"
            \/ (elf.e_type = "ET_DYN" /\ elf.interp # <<>>)
    IN  IF ~elf.has_dynamic_segment THEN {elf.interp}
        ELSE IF ~(is_executable /\ elf.interp # <<>>) THEN {elf.interp}
        ELSE { IF t = <<>> THEN elf.interp ELSE t :
                 t \in target_interpreter(prefix, cellar, exists) }

\* The interpreter step of the closure of patch_elf_placeholders: the
\* PT_INTERP values the file can have afterwards (set_interpreter is taken
\* to store the string it is given).
patch_interpreter(elf, prefix, cellar, exists) ==
    LET old_prefix == <<"@@HOMEBREW_PREFIX@@">>
        is_executable ==
            \/ elf.e_type = "ET_EXEC"
            \/ (elf.e_type = "ET_DYN" /\ elf.interp # <<>>)
    IN  IF ~elf.has_dynamic_segment THEN {elf.interp}
        ELSE IF ~(is_executable /\ elf.interp # <<>>) THEN {elf.interp}
        ELSE LET current_interp_str == elf.interp[1]
                 expanded == replace(current_interp_str, old_prefix, prefix)
                 target_interp_path ==
                     IF contains(current_interp_str, old_prefix)
                     THEN IF expanded \in exists THEN {<<expanded>>}
                          ELSE {find_system_ld_so(exists)}
                     ELSE target_interpreter(prefix, cellar, exists)
             IN  { IF t = <<>> THEN elf.interp ELSE t : t \in target_interp_path }

InitInterp ==
    /\ CellarIdle
    /\ FbcIdle
    /\ TxtIdle
    /\ RpathIdle
    /\ PassIdle
    /\ call \in [fn : {"patch_interpreter"},
                  args : [prefix : {<<"/opt/zerobrew">>},
                          cellar : GlibcCellars({"2.39"}),
                          elf : ElfFiles,
                          exists : SUBSET MachinePaths],
                  result : {<<>>}, done : {FALSE}]

PatchInterpreter ==
    /\ call.fn = "patch_interpreter" /\ ~call.done
    /\ \E r \in patch_interpreter(call.args.elf, call.args.prefix,
                                  call.args.cellar, call.args.exists) :
          call' = [call EXCEPT !.result = r, !.done = TRUE]
    /\ UNCHANGED <<dbVars, last, instVars, fsVars, fbc, txt, rpath, passVars>>

(***************************************************************************)
(* materialize.rs: patch_macho_binary_strings                              *)
(***************************************************************************)
\* File contents are sequences of bytes, a byte written as its character;
\* NUL is the zero byte.
NUL == "NUL"

\* const HOMEBREW_PREFIXES as bytes, in the order of the array.
HOMEBREW_PREFIX_BYTES ==
    << <<"/", "o", "p", "t", "/", "h", "o", "m", "e", "b", "r", "e", "w">>,
       <<"/", "u", "s", "r", "/", "l", "o", "c", "a", "l", "/", "H", "o", "m", "e", "b", "r", "e", "w">>,
       <<"/", "u", "s", "r", "/", "l", "o", "c", "a", "l">>,
       <<"/", "h", "o", "m", "e", "/", "l", "i", "n", "u", "x", "b", "r", "e", "w", "/", ".", "l", "i", "n", "u", "x", "b", "r", "e", "w">> >>

\* The prefixes zerobrew is installed under, as bytes: as long as
\* /opt/homebrew, longer than three of the four canonical prefixes (the
\* one of the test), /usr/local itself, and a short one.
MachoNewPrefixes ==
    { <<"/", "o", "p", "t", "/", "z", "e", "r", "o", "b", "r", "e", "w">>,
      <<"/", "o", "p", "t", "/", "z", "e", "r", "o", "b", "r", "e", "w", "/", "p", "r", "e", "f", "i", "x">>,
      <<"/", "u", "s", "r", "/", "l", "o", "c", "a", "l">>,
      <<"/", "o", "p", "t", "/", "z", "b">> }

\* What the data sections are put together from: the canonical prefixes, a
\* NUL, a path component, a byte that is no path boundary.
Segments ==
    {HOMEBREW_PREFIX_BYTES[k] : k \in 1..4} \cup {<<NUL>>, <<"/", "b">>, <<"x">>}

\* Most segments in a file.
MaxSegments == 3

RECURSIVE Concatenations(_)
Concatenations(n) ==
    IF n = 0 THEN {<<>>}
    ELSE LET shorter == Concatenations(n - 1)
         IN  shorter \cup {c \o s : c \in shorter, s \in Segments}

MachoContents == Concatenations(MaxSegments)

\* contents after the two writes of the loop body at (1-based) offset i.
overwrite(contents, i, old_bytes, new_bytes) ==
    [j \in 1..Len(contents) |->
        IF j >= i /\ j < i + Len(new_bytes) THEN new_bytes[j - i + 1]
        ELSE IF j >= i + Len(new_bytes) /\ j < i + Len(old_bytes) THEN NUL
        ELSE contents[j]]

\* matches!(next, None | Some(0) | Some(b'/')) for the byte after an
\* occurrence of old_bytes at i.
is_path_boundary(contents, i, old_bytes) ==
    \/ i + Len(old_bytes) > Len(contents)
    \/ contents[i + Len(old_bytes)] \in {NUL, "/"}

\* The while loop, from offset i on.
RECURSIVE scan_prefix(_, _, _, _)
scan_prefix(contents, old_bytes, new_bytes, i) ==
    IF i > Len(contents) \/ i - 1 + Len(old_bytes) > Len(contents) THEN contents
    ELSE IF /\ SubSeq(contents, i, i + Len(old_bytes) - 1) = old_bytes
            /\ is_path_boundary(contents, i, old_bytes)
         THEN scan_prefix(overwrite(contents, i, old_bytes, new_bytes),
                          old_bytes, new_bytes, i + 1)
    ELSE scan_prefix(contents, old_bytes, new_bytes, i + 1)

\* As patch_prefix, without the comparison of the lengths.
patch_prefix_any_length(contents, old_bytes, new_bytes) ==
    IF old_bytes = new_bytes THEN contents
    ELSE scan_prefix(contents, old_bytes, new_bytes, 1)

\* One iteration of `for old_prefix in HOMEBREW_PREFIXES`.
patch_prefix(contents, old_bytes, new_bytes) ==
    IF old_bytes = new_bytes THEN contents
    ELSE IF Len(new_bytes) > Len(old_bytes) THEN contents
    ELSE scan_prefix(contents, old_bytes, new_bytes, 1)

\* The contents before the loop and after each of its iterations; the last
\* is what the file holds when patch_macho_binary_strings returns Ok.
RECURSIVE macho_stages(_, _, _)
macho_stages(contents, new_bytes, k) ==
    IF k > Len(HOMEBREW_PREFIX_BYTES) THEN <<contents>>
    ELSE <<contents>> \o
         macho_stages(patch_prefix(contents, HOMEBREW_PREFIX_BYTES[k], new_bytes),
                      new_bytes, k + 1)

InitMacho ==
    /\ CellarIdle
    /\ FbcIdle
    /\ TxtIdle
    /\ RpathIdle
    /\ PassIdle
    /\ call \in [fn : {"patch_macho_binary_strings"},
                  args : [contents : MachoContents, new_prefix : MachoNewPrefixes],
                  result : {<<>>}, done : {FALSE}]

PatchMachoBinaryStrings ==
    /\ call.fn = "patch_macho_binary_strings" /\ ~call.done
    /\ call' = [call EXCEPT
                   !.result = macho_stages(call.args.contents, call.args.new_prefix, 1),
                   !.done = TRUE]
    /\ UNCHANGED <<dbVars, last, instVars, fsVars, fbc, txt, rpath, passVars>>

(***************************************************************************)
(* materialize.rs: patch_path, the version self-correction                 *)
(***************************************************************************)
\* A path is the sequence of its components, each one written after a '/';
\* a placeholder token stands at the head of a path only, without a '/'.
PkgName == "ffmpeg"
PkgVersion == "8.0.1_2"
CellarPath == <<"opt", "zerobrew", "prefix", "Cellar">>
PrefixPath == <<"opt", "zerobrew", "prefix">>

\* The components of the paths of the test, and the placeholders.
PathComponents == {"Cellar", "ffmpeg", "libvpx", "8.0.1_1", "8.0.1_2", "lib"}
PathHeads == {"@@HOMEBREW_CELLAR@@", "@@HOMEBREW_PREFIX@@"}

\* Most components in a path, the head included.
MaxPathLen == 4

DylibPaths ==
    UNION { {h \o t : h \in {<<>>} \cup {<<x>> : x \in PathHeads},
                      t \in [1..n -> PathComponents]} : n \in 1..(MaxPathLen - 1) }
    \cup [1..MaxPathLen -> PathComponents]

\* The two str::replace calls on the placeholders.
replace_placeholders(path) ==
    IF path # <<>> /\ path[1] = "@@HOMEBREW_CELLAR@@" THEN CellarPath \o Tail(path)
    ELSE IF path # <<>> /\ path[1] = "@@HOMEBREW_PREFIX@@" THEN PrefixPath \o Tail(path)
    ELSE path

\* The offsets at which (/<pkg_name>/)([^/]+)(/) matches: the component is
\* the package name and the next one is followed by a '/'.
VersionMatches(path, pkg_name) ==
    {i \in 1..(Len(path) - 2) : path[i] = pkg_name}

\* As fix_version, with a pattern that lacks the closing (/).
fix_version_no_closing_slash(path, pkg_name, pkg_version) ==
    LET m == {i \in 1..(Len(path) - 1) : path[i] = pkg_name}
    IN  IF m = {} THEN path
        ELSE LET i == CHOOSE i \in m : \A j \in m : i <= j
             IN  IF path[i + 1] # pkg_version
                 THEN [path EXCEPT ![i + 1] = pkg_version]
                 ELSE path

\* Regex::replace with the closure: the leftmost match only.
fix_version(path, pkg_name, pkg_version) ==
    LET m == VersionMatches(path, pkg_name)
    IN  IF m = {} THEN path
        ELSE LET i == CHOOSE i \in m : \A j \in m : i <= j
             IN  IF path[i + 1] # pkg_version
                 THEN [path EXCEPT ![i + 1] = pkg_version]
                 ELSE path

\* The closure patch_path: <<>> is None, <<p>> is Some(p).
patch_path(old_path, pkg_name, pkg_version) ==
    LET new_path == fix_version(replace_placeholders(old_path), pkg_name, pkg_version)
    IN  IF new_path # old_path THEN <<new_path>> ELSE <<>>

\* The path a load command holds after install_name_tool was given the
\* result of patch_path, or was not called.
patched(old_path, pkg_name, pkg_version) ==
    LET r == patch_path(old_path, pkg_name, pkg_version)
    IN  IF r = <<>> THEN old_path ELSE r[1]

InitPath ==
    /\ CellarIdle
    /\ FbcIdle
    /\ TxtIdle
    /\ RpathIdle
    /\ PassIdle
    /\ call \in [fn : {"patch_path"},
                  args : [old_path : DylibPaths],
                  result : {<<>>}, done : {FALSE}]

\* patch_path applied to a path, and once more to what it gave; the second
\* application is the one of the next materialize of the same keg.
PatchPath ==
    /\ call.fn = "patch_path" /\ Len(call.result) < 2
    /\ LET p == IF call.result = <<>> THEN call.args.old_path
                ELSE call.result[Len(call.result)]
       IN  call' = [call EXCEPT
                       !.result = Append(@, patched(p, PkgName, PkgVersion)),
                       !.done = TRUE]
    /\ UNCHANGED <<dbVars, last, instVars, fsVars, fbc, txt, rpath, passVars>>

(***************************************************************************)
(* db.rs: installed_kegs row by row                                        *)
(***************************************************************************)
\* The table as SQLite stores it: its rows in rowid order, which is the
\* order a SELECT without ORDER BY yields them in.
\* PRIMARY KEY of installed_kegs.
installed_kegs_key == {"name"}

conflict(r1, r2) == \A c \in installed_kegs_key : r1[c] = r2[c]

\* Most record_install calls in a history.
MaxInstalls == 3

\* As insert_or_replace, a plain INSERT into a table without the key.
insert_plain(table, row) == Append(table, row)

\* INSERT OR REPLACE: the rows in conflict on the primary key are deleted,
\* the new row gets a fresh rowid.
insert_or_replace(table, row) ==
    Append(SelectSeq(table, LAMBDA r : ~conflict(r, row)), row)

\* ORDER BY name: the rows by ascending name, rows of one name in rowid
\* order.
RECURSIVE order_by_name(_)
order_by_name(table) ==
    IF table = <<>> THEN <<>>
    ELSE LET i == CHOOSE i \in 1..Len(table) :
                     \A j \in 1..Len(table) :
                         \/ NameRank[table[i].name] < NameRank[table[j].name]
                         \/ (NameRank[table[i].name] = NameRank[table[j].name] /\ i <= j)
         IN  <<table[i]>> \o
             order_by_name(SubSeq(table, 1, i - 1) \o SubSeq(table, i + 1, Len(table)))

\* As select_order_by_name, without ORDER BY.
select_in_rowid_order(table) == table

\* SELECT ... FROM installed_kegs ORDER BY name, collected into a Vec.
select_order_by_name(table) == order_by_name(table)

\* The two statements of record_install on the rows.
record_install_rows(db, name, version, store_key, now) ==
    [db EXCEPT
       !.kegs = insert_or_replace(@, [name |-> name, version |-> version,
                                      store_key |-> store_key, installed_at |-> now]),
       !.refs = Put(@, store_key,
                    IF store_key \in DOMAIN @ THEN @[store_key] + 1 ELSE 1)]

\* args is the history of the record_install calls committed so far.
InitRows ==
    /\ CellarIdle
    /\ FbcIdle
    /\ TxtIdle
    /\ RpathIdle
    /\ PassIdle
    /\ call = [fn |-> "installed_kegs", args |-> <<>>,
               result |-> [kegs |-> <<>>, refs |-> EmptyFn, listed |-> <<>>],
               done |-> FALSE]

\* A transaction with one record_install, committed.
RecordInstallRows ==
    /\ call.fn = "installed_kegs" /\ ~call.done /\ Len(call.args) < MaxInstalls
    /\ \E n \in Names, v \in Versions, k \in Keys :
          call' = [call EXCEPT
                      !.args = Append(@, <<n, v, k>>),
                      !.result = record_install_rows(@, n, v, k, Now)]
    /\ UNCHANGED <<dbVars, last, instVars, fsVars, fbc, txt, rpath, passVars>>

\* Database::list_installed.
ListInstalled ==
    /\ call.fn = "installed_kegs" /\ ~call.done
    /\ call' = [call EXCEPT
                   !.result.listed = select_order_by_name(call.result.kegs),
                   !.done = TRUE]
    /\ UNCHANGED <<dbVars, last, instVars, fsVars, fbc, txt, rpath, passVars>>

(***************************************************************************)
(* zb_cli: main, info, gc, list                                            *)
(***************************************************************************)
\* A store key is modelled by its length in bytes (keys are ASCII): the
\* keys of the tests of db.rs, "abc123" and "shared123", a key of twelve
\* bytes and a SHA-256 in hexadecimal.
StoreKeyLengths == {6, 9, 12, 64}

\* The bytes of a store key that info and gc print.
DisplayedKeyLen == 12

\* The exit status of a Rust process whose main thread panicked.
PanicExitCode == 101

\* Most keys gc reports as removed.
MaxRemoved == 2

\* &s[..end] on a string of len bytes.
slice_to(len, end) == IF end <= len THEN "ok" ELSE "panic"

\* What an Installer call gave: Err, or Ok with the store keys in the value
\* (of the keg found by get_installed, of the keys gc removed).
\* commands::info::execute; get_installed gives an Option, never Err.
info_execute(got) ==
    IF got.keys # <<>> THEN slice_to(got.keys[1], DisplayedKeyLen) ELSE "ok"

\* commands::gc::execute.
gc_execute(got) ==
    IF ~got.ok THEN "err"
    ELSE IF \E i \in 1..Len(got.keys) : slice_to(got.keys[i], DisplayedKeyLen) = "panic"
         THEN "panic"
    ELSE "ok"

\* commands::list::execute.
list_execute(got) == IF ~got.ok THEN "err" ELSE "ok"

\* run(cli) for info, gc and list.
run(inv) ==
    IF ~inv.init_ok THEN "err"
    ELSE IF inv.command = "info" THEN info_execute(inv.installer)
    ELSE IF inv.command = "gc" THEN gc_execute(inv.installer)
    ELSE list_execute(inv.installer)

\* main: the exit status of the process.
main(inv) ==
    LET r == run(inv)
    IN  IF r = "ok" THEN 0 ELSE IF r = "err" THEN 1 ELSE PanicExitCode

\* What the Installer gives each command.
Invocations ==
    [command : {"info"}, init_ok : BOOLEAN,
     installer : [ok : {TRUE}, keys : {<<>>} \cup {<<l>> : l \in StoreKeyLengths}]]
    \cup [command : {"gc"}, init_ok : BOOLEAN,
          installer : {[ok |-> FALSE, keys |-> <<>>]} \cup
                      [ok : {TRUE},
                       keys : UNION {[1..n -> StoreKeyLengths] : n \in 0..MaxRemoved}]]
    \cup [command : {"list"}, init_ok : BOOLEAN,
          installer : [ok : BOOLEAN, keys : {<<>>}]]

InitCli ==
    /\ CellarIdle
    /\ FbcIdle
    /\ TxtIdle
    /\ RpathIdle
    /\ PassIdle
    /\ call \in [fn : {"main"}, args : Invocations, result : {<<>>}, done : {FALSE}]

Main ==
    /\ call.fn = "main" /\ ~call.done
    /\ call' = [call EXCEPT !.result = <<main(call.args)>>, !.done = TRUE]
    /\ UNCHANGED <<dbVars, last, instVars, fsVars, fbc, txt, rpath, passVars>>

(***************************************************************************)
(* installer/homebrew.rs: the packages of a migration                      *)
(***************************************************************************)
\* An element of the array `brew info --json=v1 --installed` prints: its
\* "name" and "tap" members, <<>> when the member is missing or no string.
JsonFormulas ==
    [name : {<<>>, <<"git">>, <<"php">>},
     tap : {<<>>, <<"homebrew/core">>, <<"homebrew/php">>}]

\* A line of the output of `brew list --cask`.
CaskLines == {"", "visual-studio-code"}

\* Most formulas in the JSON array, and most lines of the cask list.
MaxPackages == 2
MaxCaskLines == 1

\* parse_formulas_from_json
parse_formulas_from_json(json) ==
    LET named == SelectSeq(json, LAMBDA formula : formula.name # <<>>)
    IN  [i \in 1..Len(named) |->
            [name |-> named[i].name[1],
             tap |-> IF named[i].tap # <<>> THEN named[i].tap[1] ELSE "homebrew/core",
             is_cask |-> FALSE]]

\* parse_casks_from_plain_text
parse_casks_from_plain_text(lines) ==
    LET kept == SelectSeq(lines, LAMBDA line : line # "")
    IN  [i \in 1..Len(kept) |->
            [name |-> kept[i], tap |-> "homebrew/cask", is_cask |-> TRUE]]

\* As categorize_packages, telling the lists apart by the tap alone.
categorize_packages_by_tap(packages) ==
    [formulas |-> SelectSeq(packages, LAMBDA pkg : pkg.tap = "homebrew/core"),
     non_core_formulas |-> SelectSeq(packages, LAMBDA pkg : pkg.tap # "homebrew/core"),
     casks |-> <<>>]

\* categorize_packages: each push appends, so each list keeps the order of
\* the input.
categorize_packages(packages) ==
    [formulas |->
        SelectSeq(packages, LAMBDA pkg : ~pkg.is_cask /\ pkg.tap = "homebrew/core"),
     non_core_formulas |->
        SelectSeq(packages, LAMBDA pkg : ~pkg.is_cask /\ pkg.tap # "homebrew/core"),
     casks |-> SelectSeq(packages, LAMBDA pkg : pkg.is_cask)]

InitHomebrew ==
    /\ CellarIdle
    /\ FbcIdle
    /\ TxtIdle
    /\ RpathIdle
    /\ PassIdle
    /\ call \in [fn : {"get_homebrew_packages"},
                  args : [json : UNION {[1..n -> JsonFormulas] : n \in 0..MaxPackages},
                          casks : UNION {[1..n -> CaskLines] : n \in 0..MaxCaskLines}],
                  result : {<<>>}, done : {FALSE}]

\* get_homebrew_packages with both brew calls succeeding; the result keeps
\* all_packages beside the three lists.
GetHomebrewPackages ==
    /\ call.fn = "get_homebrew_packages" /\ ~call.done
    /\ LET all_packages == parse_formulas_from_json(call.args.json)
                           \o parse_casks_from_plain_text(call.args.casks)
       IN  call' = [call EXCEPT
                       !.result = <<all_packages, categorize_packages(all_packages)>>,
                       !.done = TRUE]
    /\ UNCHANGED <<dbVars, last, instVars, fsVars, fbc, txt, rpath, passVars>>

(***************************************************************************)
(* materialize.rs: remove_keg and the Cellar/<name>/ directories           *)
(***************************************************************************)
\* The Cellar as its directories: the names that have a directory, each
\* with the entries of that directory (version directories, and a file
\* that is no keg).
NameDirEntries == Versions \cup {".DS_Store"}

CellarDirs ==
    UNION {[N -> SUBSET NameDirEntries] : N \in SUBSET Names}

\* As remove_keg_dirs, removing Cellar/<name>/ with what it still holds.
remove_keg_dirs_with_parent(cellar, name, version, io_ok) ==
    IF name \notin DOMAIN cellar \/ version \notin cellar[name]
    THEN [ok |-> TRUE, cellar |-> cellar]
    ELSE IF ~io_ok THEN [ok |-> FALSE, cellar |-> cellar]
    ELSE [ok |-> TRUE, cellar |-> Del(cellar, {name})]

\* Cellar::remove_keg on the directories: Ok at once when the keg path does
\* not exist; remove_dir_all (an error leaves the keg directory in place
\* and is returned); then remove_dir of the parent, which succeeds only on
\* an empty directory and whose error is ignored.
remove_keg_dirs(cellar, name, version, io_ok) ==
    IF name \notin DOMAIN cellar \/ version \notin cellar[name]
    THEN [ok |-> TRUE, cellar |-> cellar]
    ELSE IF ~io_ok THEN [ok |-> FALSE, cellar |-> cellar]
    ELSE LET removed == [cellar EXCEPT ![name] = @ \ {version}]
         IN  [ok |-> TRUE,
              cellar |-> IF removed[name] = {} THEN Del(removed, {name})
                         ELSE removed]

InitRemove ==
    /\ CellarIdle
    /\ FbcIdle
    /\ TxtIdle
    /\ RpathIdle
    /\ PassIdle
    /\ call \in [fn : {"remove_keg"},
                  args : [cellar : CellarDirs, name : Names, version : Versions,
                          io_ok : BOOLEAN],
                  result : {<<>>}, done : {FALSE}]

RemoveKegDirs ==
    /\ call.fn = "remove_keg" /\ ~call.done
    /\ call' = [call EXCEPT
                   !.result = <<remove_keg_dirs(call.args.cellar, call.args.name,
                                                call.args.version, call.args.io_ok)>>,
                   !.done = TRUE]
    /\ UNCHANGED <<dbVars, last, instVars, fsVars, fbc, txt, rpath, passVars>>

(***************************************************************************)
(* The text pass on one directory entry of the keg                         *)
(***************************************************************************)
\* A NUL byte and a byte sequence that is not valid UTF-8, as pieces of a
\* file's content.  The files are shorter than the 8192-byte buffer, so the
\* first read holds all of their content.
NulByte == "\\0"
InvalidUtf8 == "\\xFF"

EntryContents ==
    UNION {[1..l -> TextPieces \cup {NulByte, InvalidUtf8}] : l \in 0..MaxTextLen}

EntryKinds == {"file", "symlink"}

Modes == SUBSET {"w", "x"}

\* As text_pass_entry, without the look for a NUL byte in the buffer.
text_pass_entry_no_nul_check(os, kind, content, mode, prefix, write_ok) ==
    LET same == [content |-> content, mode |-> mode, failed |-> FALSE]
        new == IF os = "linux"
               THEN patch_text_placeholders(content, prefix, prefix \o <<"/Cellar">>)
               ELSE patch_text_file_strings(content, prefix, prefix \o <<"/Cellar">>)
    IN  IF kind # "file" THEN same
        ELSE IF contains(content, <<InvalidUtf8>>) THEN same
        ELSE IF new = content THEN same
        ELSE IF write_ok THEN [content |-> new, mode |-> mode, failed |-> FALSE]
        ELSE [content |-> content, mode |-> mode \cup {"w"}, failed |-> TRUE]

\* One entry of the walk over the keg in patch_text_placeholders (Linux) and
\* patch_homebrew_placeholders (macOS): follow_links(false) and
\* file_type().is_file() keep regular files only; a NUL in the buffer, a
\* read_to_string error and a content without anything to replace return
\* before any change; otherwise chmod +w if read-only, fs::write, and the
\* original mode again.  A failed fs::write returns before the mode is set
\* back.
text_pass_entry(os, kind, content, mode, prefix, write_ok) ==
    LET same == [content |-> content, mode |-> mode, failed |-> FALSE]
        new == IF os = "linux"
               THEN patch_text_placeholders(content, prefix, prefix \o <<"/Cellar">>)
               ELSE patch_text_file_strings(content, prefix, prefix \o <<"/Cellar">>)
    IN  IF kind # "file" THEN same
        ELSE IF contains(content, <<NulByte>>) THEN same
        ELSE IF contains(content, <<InvalidUtf8>>) THEN same
        ELSE IF new = content THEN same
        ELSE IF write_ok THEN [content |-> new, mode |-> mode, failed |-> FALSE]
        ELSE [content |-> content, mode |-> mode \cup {"w"}, failed |-> TRUE]

InitEntry ==
    /\ CellarIdle
    /\ FbcIdle
    /\ TxtIdle
    /\ RpathIdle
    /\ PassIdle
    /\ call \in [fn : {"text_pass_entry"},
                  args : [platform : {"linux", "macos"}, kind : EntryKinds,
                          content : EntryContents, mode : Modes,
                          prefix : NewPrefixes, write_ok : BOOLEAN],
                  result : {<<>>}, done : {FALSE}]

TextPassEntry ==
    /\ call.fn = "text_pass_entry" /\ ~call.done
    /\ call' = [call EXCEPT
                   !.result = <<text_pass_entry(call.args.platform, call.args.kind,
                                                call.args.content, call.args.mode,
                                                call.args.prefix, call.args.write_ok)>>,
                   !.done = TRUE]
    /\ UNCHANGED <<dbVars, last, instVars, fsVars, fbc, txt, rpath, passVars>>

(***************************************************************************)
(* zb_cli: migrate                                                         *)
(***************************************************************************)
\* How the install of one formula ends: plan and execute return Ok, plan
\* returns Err, or execute returns Err.
InstallOutcomes == {"ok", "plan_err", "execute_err"}

\* What one run of migrate meets: the core formulas Homebrew reports (a
\* name may be listed twice), the flags, the answers typed at the two
\* prompts ("y" or anything else), how each install ends and whether each
\* `brew uninstall` exits with success.
MigrateInputs ==
    UNION {[packages_ok : BOOLEAN,
            formulas : [1..l -> Names],
            yes : BOOLEAN, force : BOOLEAN,
            continue_answer : BOOLEAN, uninstall_answer : BOOLEAN,
            outcome : [1..l -> InstallOutcomes],
            brew_ok : [1..l -> BOOLEAN]] : l \in 0..MaxPackages}

\* The locals of execute and the calls it has made so far, in order.
MigrateStarted ==
    [pc |-> "start", i |-> 1, success_count |-> 0, failed |-> <<>>,
     uninstalled |-> 0, uninstall_failed |-> <<>>, log |-> <<>>, ret |-> "none"]

\* Vec::contains
vec_contains(v, x) == \E j \in 1..Len(v) : v[j] = x

\* One iteration of the first loop: installer.plan, then installer.execute
\* on its Ok, success_count += 1 or failed.push(name).
install_step(st, name, outcome) ==
    LET planned == Append(st.log, [op |-> "plan", name |-> name,
                                   ok |-> outcome # "plan_err"])
    IN  IF outcome = "plan_err"
        THEN [st EXCEPT !.log = planned, !.failed = Append(@, name), !.i = @ + 1]
        ELSE LET executed == Append(planned, [op |-> "execute", name |-> name,
                                             ok |-> outcome = "ok"])
             IN  IF outcome = "ok"
                 THEN [st EXCEPT !.log = executed, !.success_count = @ + 1, !.i = @ + 1]
                 ELSE [st EXCEPT !.log = executed, !.failed = Append(@, name),
                                 !.i = @ + 1]

\* As uninstall_step, without the look into `failed`.
uninstall_step_without_skip(st, name, force, brew_ok) ==
    LET args == IF force THEN <<"uninstall", "--force", name>> ELSE <<"uninstall", name>>
        ran == Append(st.log, [op |-> "brew_uninstall", name |-> name, ok |-> brew_ok,
                               args |-> args])
    IN  IF brew_ok
        THEN [st EXCEPT !.log = ran, !.uninstalled = @ + 1, !.i = @ + 1]
        ELSE [st EXCEPT !.log = ran, !.uninstall_failed = Append(@, name), !.i = @ + 1]

\* One iteration of the second loop: `continue` for a name in `failed`,
\* otherwise Command::new("brew") uninstall [--force] name.
uninstall_step(st, name, force, brew_ok) ==
    LET args == IF force THEN <<"uninstall", "--force", name>> ELSE <<"uninstall", name>>
        ran == Append(st.log, [op |-> "brew_uninstall", name |-> name, ok |-> brew_ok,
                               args |-> args])
    IN  IF vec_contains(st.failed, name) THEN [st EXCEPT !.i = @ + 1]
        ELSE IF brew_ok
        THEN [st EXCEPT !.log = ran, !.uninstalled = @ + 1, !.i = @ + 1]
        ELSE [st EXCEPT !.log = ran, !.uninstall_failed = Append(@, name), !.i = @ + 1]

InitMigrate ==
    /\ CellarIdle
    /\ FbcIdle
    /\ TxtIdle
    /\ RpathIdle
    /\ PassIdle
    /\ call \in [fn : {"migrate"}, args : MigrateInputs,
                  result : {MigrateStarted}, done : {FALSE}]

\* get_homebrew_packages, the empty checks and the first prompt.
MigrateStart ==
    /\ call.fn = "migrate" /\ call.result.pc = "start"
    /\ LET a == call.args
       IN  IF ~a.packages_ok
           THEN call' = [call EXCEPT !.result.pc = "done", !.result.ret = "err",
                                     !.done = TRUE]
           ELSE IF Len(a.formulas) = 0 \/ (~a.yes /\ ~a.continue_answer)
           THEN call' = [call EXCEPT !.result.pc = "done", !.result.ret = "ok",
                                     !.done = TRUE]
           ELSE call' = [call EXCEPT !.result.pc = "install"]
    /\ UNCHANGED <<dbVars, last, instVars, fsVars, fbc, txt, rpath, passVars>>

\* for pkg in &packages.formulas: plan and execute.
MigrateInstall ==
    /\ call.fn = "migrate" /\ call.result.pc = "install"
    /\ call.result.i <= Len(call.args.formulas)
    /\ call' = [call EXCEPT
                   !.result = install_step(call.result,
                                           call.args.formulas[call.result.i],
                                           call.args.outcome[call.result.i])]
    /\ UNCHANGED <<dbVars, last, instVars, fsVars, fbc, txt, rpath, passVars>>

\* After the first loop: return when success_count == 0, prompt unless
\* --yes, return unless the answer is "y".
MigrateAfterInstall ==
    /\ call.fn = "migrate" /\ call.result.pc = "install"
    /\ call.result.i > Len(call.args.formulas)
    /\ IF \/ call.result.success_count = 0
          \/ ~call.args.yes /\ ~call.args.uninstall_answer
       THEN call' = [call EXCEPT !.result.pc = "done", !.result.ret = "ok",
                                 !.done = TRUE]
       ELSE call' = [call EXCEPT !.result.pc = "uninstall", !.result.i = 1]
    /\ UNCHANGED <<dbVars, last, instVars, fsVars, fbc, txt, rpath, passVars>>

\* for pkg in &packages.formulas: brew uninstall.
MigrateUninstall ==
    /\ call.fn = "migrate" /\ call.result.pc = "uninstall"
    /\ call.result.i <= Len(call.args.formulas)
    /\ call' = [call EXCEPT
                   !.result = uninstall_step(call.result,
                                             call.args.formulas[call.result.i],
                                             call.args.force,
                                             call.args.brew_ok[call.result.i])]
    /\ UNCHANGED <<dbVars, last, instVars, fsVars, fbc, txt, rpath, passVars>>

\* The summary is printed and execute returns Ok(()).
MigrateReturn ==
    /\ call.fn = "migrate" /\ call.result.pc = "uninstall"
    /\ call.result.i > Len(call.args.formulas)
    /\ call' = [call EXCEPT !.result.pc = "done", !.result.ret = "ok", !.done = TRUE]
    /\ UNCHANGED <<dbVars, last, instVars, fsVars, fbc, txt, rpath, passVars>>

(***************************************************************************)
(* Specifications                                                          *)
(***************************************************************************)
NextDb ==
    \/ Transaction
    \/ RecordInstall
    \/ RecordLinkedFile
    \/ RecordUninstall
    \/ Commit
    \/ CommitFails
    \/ Drop

SpecDb == Init /\ [][NextDb]_vars

NextInst ==
    \/ Execute
    \/ ExecuteFails
    \/ Uninstall
    \/ Gc

SpecInst == Init /\ [][NextInst]_vars

\* Installs, re-installs, uninstalls and gc in which every step succeeds.
NextInstOk ==
    \/ Execute
    \/ Uninstall
    \/ Gc

SpecInstOk == Init /\ [][NextInstOk]_vars

NextFs ==
    \/ Populate
    \/ Materialize
    \/ RemoveKeg

SpecFs == Init /\ [][NextFs]_vars

NextFind ==
    \/ FindBottleContent

SpecFind == InitFind /\ [][NextFind]_vars

NextText ==
    \/ TextPass

SpecText == InitText /\ [][NextText]_vars

NextPass ==
    \/ \E p \in CollectedPaths : Dedup(p)
    \/ \E p \in CollectedPaths : BeginMacho(p)
    \/ \E p \in CollectedPaths : ReadAndPatch(p)
    \/ \E p \in CollectedPaths : PatchFails(p)
    \/ \E p \in CollectedPaths : CreateTemp(p)
    \/ \E p \in CollectedPaths : WriteTemp(p)
    \/ \E p \in CollectedPaths : Rename(p)
    \/ PassReturn

SpecPass == InitPass /\ [][NextPass]_vars

NextRpath ==
    \/ SetRunpath

SpecRpath == InitRpath /\ [][NextRpath]_vars

NextGlibc ==
    \/ DetectZerobrewGlibc

SpecGlibc == InitGlibc /\ [][NextGlibc]_vars

NextInterp ==
    \/ PatchInterpreter

SpecInterp == InitInterp /\ [][NextInterp]_vars

NextMacho ==
    \/ PatchMachoBinaryStrings

SpecMacho == InitMacho /\ [][NextMacho]_vars

NextPath ==
    \/ PatchPath

SpecPath == InitPath /\ [][NextPath]_vars

NextRows ==
    \/ RecordInstallRows
    \/ ListInstalled

SpecRows == InitRows /\ [][NextRows]_vars

\* Installs and uninstalls in which any step may fail.
NextUninst ==
    \/ Execute
    \/ ExecuteFails
    \/ Uninstall
    \/ UninstallFails

SpecUninst == Init /\ [][NextUninst]_vars

NextCli ==
    \/ Main

SpecCli == InitCli /\ [][NextCli]_vars

NextHomebrew ==
    \/ GetHomebrewPackages

SpecHomebrew == InitHomebrew /\ [][NextHomebrew]_vars

NextRemove ==
    \/ RemoveKegDirs

SpecRemove == InitRemove /\ [][NextRemove]_vars

NextEntry ==
    \/ TextPassEntry

SpecEntry == InitEntry /\ [][NextEntry]_vars

\* Materializing with copies that can fail part-way.
NextFsFail ==
    \/ Populate
    \/ Materialize
    \/ MaterializeFails

SpecFsFail == Init /\ [][NextFsFail]_vars

\* Transactions that record linked files for the keg they install only.
NextDbLinks ==
    \/ Transaction
    \/ RecordInstall
    \/ RecordLinkedFileOfInstall
    \/ RecordUninstall
    \/ Commit
    \/ Drop

SpecDbLinks == Init /\ [][NextDbLinks]_vars

NextMigrate ==
    \/ MigrateStart
    \/ MigrateInstall
    \/ MigrateAfterInstall
    \/ MigrateUninstall
    \/ MigrateReturn

SpecMigrate == InitMigrate /\ [][NextMigrate]_vars

(***************************************************************************)
(* Properties                                                              *)
(***************************************************************************)
\* installed_kegs rows whose store_key is k.
KegsOn(d, k) == {n \in DOMAIN d.kegs : d.kegs[n].store_key = k}

\* Everything the four readers return.
ReaderView(d) ==
    [installed    |-> [n \in Names |-> get_installed(d, n)],
     list         |-> list_installed(d),
     refcount     |-> [k \in Keys |-> get_store_refcount(d, k)],
     unreferenced |-> get_unreferenced_store_keys(d)]

\* The database after one install, recorded from the empty database.
SingleInstall(d) ==
    \E n \in Names, v \in Versions, k \in Keys, L \in SUBSET Paths :
        d = RecordFormula(init_schema, n, v, k, L)

\* C1: between transactions, for every store key the refcount returned by
\* get_store_refcount equals the number of installed_kegs rows with that key.
C1_RefcountCountsKegs ==
    ~txOpen =>
        \A k \in Keys : get_store_refcount(disk, k) = Cardinality(KegsOn(disk, k))

\* C2: a transaction handle dropped without commit leaves the database
\* exactly as it was before the transaction began; a key first seen in the
\* transaction still has refcount 0 and no row.
C2_DropRollsBack ==
    [][(txOpen /\ ~txOpen' /\ last' = "dropped") =>
          /\ disk' = disk
          /\ ReaderView(disk') = ReaderView(disk)
          /\ \A k \in (DOMAIN tx.refs) \ (DOMAIN disk.refs) :
                 get_store_refcount(disk', k) = 0]_vars

C2_Witness ==
    /\ ~txOpen /\ last = "dropped" /\ nops >= 2
    /\ disk.kegs # EmptyFn

\* C3: the readers' view changes only at a successful commit, and then to
\* the view with every write of the transaction; a failed commit or a drop
\* leaves the view as it was, and so does every step inside a transaction.
C3_CommitAtomic ==
    [][/\ (txOpen /\ ~txOpen' /\ last' = "committed") =>
              /\ disk' = tx
              /\ ReaderView(disk') = ReaderView(tx)
       /\ (txOpen /\ ~txOpen' /\ last' # "committed") =>
              ReaderView(disk') = ReaderView(disk)
       /\ (txOpen /\ txOpen') => ReaderView(disk') = ReaderView(disk)]_vars

C3_Witness ==
    /\ ~txOpen /\ last = "committed" /\ nops >= 2
    /\ Cardinality(DOMAIN disk.kegs) = 2
    /\ disk.files # EmptyFn

C5_InstalledKegHasRef ==
    ~txOpen =>
        \A n \in DOMAIN disk.kegs :
            /\ disk.kegs[n].store_key \in DOMAIN disk.refs
            /\ disk.refs[disk.kegs[n].store_key] >= 1

C5_Witness ==
    /\ ~txOpen /\ last = "gc" /\ gcRemoved # {}
    /\ \E k \in Keys : Cardinality(KegsOn(disk, k)) = 2

\* The committing step of a transaction that made the single call
\* record_uninstall of the one package installed from the empty database.
RoundTripCommit ==
    /\ txOpen /\ ~txOpen' /\ last' = "committed"
    /\ SingleInstall(disk) /\ nops = 1
    /\ tx.kegs = EmptyFn

\* C6 as stated: after the install + uninstall round trip the database is
\* identical to the initial empty database.
C6_RoundTripRestoresEmpty ==
    [][RoundTripCommit => disk' = init_schema]_vars

\* C6 amended: after the round trip installed_kegs and keg_files are empty
\* and the store_refs row of the package's key remains, with refcount 0.
C6_RoundTripLeavesZeroRef ==
    [][RoundTripCommit =>
          /\ disk'.kegs = EmptyFn
          /\ disk'.files = EmptyFn
          /\ DOMAIN disk'.refs = DOMAIN disk.refs
          /\ \A k \in DOMAIN disk'.refs : disk'.refs[k] = 0
          /\ get_unreferenced_store_keys(disk') = DOMAIN disk.refs
          /\ storeDirs' = storeDirs]_vars

C6_Witness ==
    /\ ~txOpen /\ last = "committed" /\ nops = 1
    /\ disk.kegs = EmptyFn /\ disk.files = EmptyFn
    /\ \E k \in Keys : DOMAIN disk.refs = {k} /\ disk.refs[k] = 0

\* C7: uninstall leaves the set of StoreEntries unchanged, and a gc run when
\* no keg is installed leaves the store with no entry.
C7_GcReclaimsAll ==
    [][/\ last' = "uninstall" => storeDirs' = storeDirs
       /\ (last' = "gc" /\ disk.kegs = EmptyFn) => storeDirs' = {}]_vars

\* C8: a StoreEntry directory exists iff a StoreRef row has its key.
C8_StoreDirIffStoreRef ==
    ~txOpen => storeDirs = DOMAIN disk.refs

\* The files of StoreEntry k are as the download collaborator wrote them.
EntryIntact(k) ==
    \A f \in BottleFiles(k) :
        inodes[StoreInode(k, f)] =
            [content |-> Bottle[k][f].content, mode |-> Bottle[k][f].mode]

\* C9: no file under a StoreEntry ever changes content or mode bits.
C9_StoreEntryImmutable ==
    \A k \in entries : EntryIntact(k)

\* C10: materialize of a (name, version) whose keg exists returns the keg
\* path and changes no file, for any store entry passed.
C10_MaterializeIdempotent ==
    [][(last' = "materialize" /\ <<matArgs'[1], matArgs'[2]>> \in DOMAIN kegTree) =>
          /\ kegTree' = kegTree
          /\ inodes' = inodes]_vars

C10_Witness ==
    /\ last = "materialize"
    /\ <<matArgs[1], matArgs[2]>> \in DOMAIN kegTree
    /\ DOMAIN kegTree[<<matArgs[1], matArgs[2]>>] # DOMAIN Bottle[matArgs[3]]

\* C12: has_keg(name, version) is true exactly when the keg directory
\* exists: it is true after a materialize of (name, version), false after
\* remove_keg(name, version), and neither call changes it for another keg.
C12_HasKegIffKegExists ==
    [][/\ last' = "materialize" => has_keg(kegTree', matArgs'[1], matArgs'[2])
       /\ last' = "remove_keg" => ~has_keg(kegTree', matArgs'[1], matArgs'[2])
       /\ last' \in {"materialize", "remove_keg"} =>
              \A nv \in CellarKegs \ {<<matArgs'[1], matArgs'[2]>>} :
                  has_keg(kegTree', nv[1], nv[2]) = has_keg(kegTree, nv[1], nv[2])]_vars

\* A keg whose ELF pass wrote a file has been removed again, next to a keg
\* that stays.
C12_Witness ==
    /\ last = "remove_keg"
    /\ ~has_keg(kegTree, matArgs[1], matArgs[2])
    /\ KegInode(matArgs[1], matArgs[2], "bin/tool") \notin DOMAIN inodes
    /\ \E nv \in CellarKegs : has_keg(kegTree, nv[1], nv[2])
    /\ \E k \in entries : ~EntryIntact(k)

\* The directories directly under entry/name.
ChildDirs(entry, name) == {q \in read_dir(entry, <<name>>) : is_dir(entry, q)}

\* C11: find_bottle_content returns entry/name/version when that directory
\* exists; otherwise entry/name/<child> when entry/name is a directory with
\* exactly one child directory; otherwise the store entry itself, whatever
\* the shape of the store entry.
C11_FindBottleContentThreeShapes ==
    (fbc.done /\ fbc.read_ok) =>
        fbc.result =
            IF is_dir(fbc.entry, <<fbc.name, fbc.version>>)
            THEN <<fbc.name, fbc.version>>
            ELSE IF is_dir(fbc.entry, <<fbc.name>>)
                    /\ Cardinality(ChildDirs(fbc.entry, fbc.name)) = 1
                 THEN CHOOSE q \in ChildDirs(fbc.entry, fbc.name) : TRUE
            ELSE <<>>

\* The store entry k holds no placeholder and no ELF.
NothingToRelocate(ino, k) ==
    \A f \in BottleFiles(k) : ino[StoreInode(k, f)].content = "text_plain"

\* The keg tree holds the paths of the source root of k, each of the same
\* kind, a symbolic link with the source's target, a regular file with the
\* content and mode its source had when copied; the source is untouched.
Reproduces(tree, inoAfter, inoBefore, k) ==
    /\ DOMAIN tree = DOMAIN Bottle[k]
    /\ \A f \in DOMAIN Bottle[k] :
          IF Bottle[k][f].kind = "dir" THEN tree[f] = <<"dir">>
          ELSE IF Bottle[k][f].kind = "symlink"
               THEN tree[f] = <<"symlink", Bottle[k][f].target>>
          ELSE /\ is_file(tree[f])
               /\ inoAfter[tree[f]] = inoBefore[StoreInode(k, f)]
               /\ inoAfter[StoreInode(k, f)] = inoBefore[StoreInode(k, f)]

\* C13: after materialize of a new keg from a store entry with no
\* placeholder and no binary to relocate, the keg tree reproduces the source
\* root: same relative paths, directories as directories, symbolic links
\* with the same target, regular files with the same content and mode,
\* hardlinked or byte-copied.
C13_KegReproducesSource ==
    [][(/\ last' = "materialize"
        /\ ~has_keg(kegTree, matArgs'[1], matArgs'[2])
        /\ NothingToRelocate(inodes, matArgs'[3])) =>
          Reproduces(kegTree'[<<matArgs'[1], matArgs'[2]>>], inodes', inodes,
                     matArgs'[3])]_vars

\* A keg of key3 just materialized by byte copy, its read-only executable
\* still read-only and executable, next to a keg of key3 made of hardlinks.
C13_Witness ==
    /\ last = "materialize" /\ matArgs[3] = "key3"
    /\ has_keg(kegTree, matArgs[1], matArgs[2])
    /\ LET tree == kegTree[<<matArgs[1], matArgs[2]>>]
       IN  /\ DOMAIN tree = DOMAIN Bottle["key3"]
           /\ tree["bin/run"] = KegInode(matArgs[1], matArgs[2], "bin/run")
           /\ inodes[tree["bin/run"]].mode = {"x"}
           /\ tree["bin/r"] = <<"symlink", "run">>
    /\ \E nv \in DOMAIN kegTree :
          /\ "bin/run" \in DOMAIN kegTree[nv]
          /\ kegTree[nv]["bin/run"] = StoreInode("key3", "bin/run")

\* C16: every file of a new keg that the ELF pass or the text pass rewrote
\* has, after the passes, the permission bits it had before them.
C16_RelocationPreservesMode ==
    [][(last' = "materialize" /\ ~has_keg(kegTree, matArgs'[1], matArgs'[2])) =>
          \A f \in BottleFiles(matArgs'[3]) :
              LET before == inodes[StoreInode(matArgs'[3], f)]
                  after  == inodes'[kegTree'[<<matArgs'[1], matArgs'[2]>>][f]]
              IN  after.content # before.content => after.mode = before.mode]_vars

\* A keg whose read-only executable ELF and read-only text file were both
\* rewritten and are both read-only again.
C16_Witness ==
    /\ last = "materialize" /\ matArgs[3] = "key1"
    /\ has_keg(kegTree, matArgs[1], matArgs[2])
    /\ LET tree == kegTree[<<matArgs[1], matArgs[2]>>]
       IN  /\ DOMAIN tree = DOMAIN Bottle["key1"]
           /\ inodes[tree["bin/tool"]] = [content |-> "elf_patched", mode |-> {"x"}]
           /\ inodes[tree["etc/conf"]] = [content |-> "text_patched", mode |-> {}]
           /\ tree["etc/conf"] = KegInode(matArgs[1], matArgs[2], "etc/conf")

\* C14: on both platforms, after the text pass no token of the six
\* placeholders remains in a UTF-8 file without NUL.
C14_NoPlaceholderRemains ==
    txt.runs >= 1 =>
        \A i \in 1..Len(txt.content) : txt.content[i] \notin Placeholders

\* C15: running the text pass again on a file it has already run on leaves
\* the content as it is, for every content and every new prefix.
C15_TextPassIdempotent ==
    [][(txt.runs >= 1 /\ txt'.runs = txt.runs + 1) =>
          txt'.content = txt.content]_vars

\* C17: whatever number of files failed to patch, the relocation pass
\* returns success to materialize, on Linux and on macOS.
C17_PassNeverFails ==
    passResult \in {"none", "ok"}

\* Closures that went past the inode check having seen inode i.
ClaimedBy(i) == {p \in DOMAIN buf : buf[p].claimed = i}

\* C18: in the ELF pass, under every interleaving, no two closures go on to
\* patch the same inode, and once every closure has started each distinct
\* inode of the collected files has been taken by exactly one closure.
C18_InodePatchedOnce ==
    platform = "linux" =>
        \A i \in {InitialIno[p] : p \in DOMAIN pc} :
            /\ Cardinality(ClaimedBy(i)) <= 1
            /\ (\A p \in DOMAIN pc : pc[p] # "start") => Cardinality(ClaimedBy(i)) = 1
            /\ ClaimedBy(i) # {} => i \in processed_inodes

\* The ELF pass has returned: one hardlink was patched, the other skipped.
C18_Witness ==
    /\ platform = "linux" /\ passResult = "ok"
    /\ \E p, q \in DOMAIN pc :
          /\ InitialIno[p] = InitialIno[q]
          /\ pc[p] = "done" /\ pc[q] = "skipped"
          /\ data[pathIno[p]] = <<"patched", InitialIno[p]>>

\* C19: under every schedule, a path whose closure has finished its rename
\* holds the patch of its own original content.
C19_PatchesIndependent ==
    \A p \in DOMAIN pc :
        pc[p] = "done" => data[pathIno[p]] = <<"patched", InitialIno[p]>>

\* The entries of a ':'-separated list.
RECURSIVE split(_, _)
split(str, sep) ==
    IF \A i \in 1..Len(str) : str[i] # sep THEN <<str>>
    ELSE LET k == CHOOSE i \in 1..Len(str) :
                      str[i] = sep /\ \A j \in 1..(i - 1) : str[j] # sep
         IN  <<SubSeq(str, 1, k - 1)>> \o split(SubSeq(str, k + 1, Len(str)), sep)

\* s is t with the entries at some positions left out, order kept.
RECURSIVE IsSubsequence(_, _)
IsSubsequence(s, t) ==
    IF s = <<>> THEN TRUE
    ELSE IF t = <<>> THEN FALSE
    ELSE IF Head(s) = Head(t) THEN IsSubsequence(Tail(s), Tail(t))
    ELSE IsSubsequence(s, Tail(t))

\* C20: the RUNPATH written is the ':'-join of the old entries after the
\* placeholder substitution, those kept, in their order, that start with
\* the new prefix or $ORIGIN, with <new_prefix>/lib appended when it is not
\* among them; so every entry starts with the new prefix or $ORIGIN and
\* <new_prefix>/lib is present.
C20_RunpathEntries ==
    rpath.done =>
        LET lib    == rpath.prefix \o <<"/lib">>
            subst  == [i \in 1..Len(rpath.old_rpaths) |->
                          replace(rpath.old_rpaths[i], <<"@@HOMEBREW_PREFIX@@">>,
                                  rpath.prefix)]
            good(r) == starts_with(r, rpath.prefix) \/ starts_with(r, <<"$ORIGIN">>)
            written == split(rpath.runpath, ":")
            body   == IF \E i \in 1..Len(subst) : good(subst[i]) /\ subst[i] = lib
                      THEN written
                      ELSE SubSeq(written, 1, Len(written) - 1)
        IN  /\ \A i \in 1..Len(written) : good(written[i])
            /\ \E i \in 1..Len(written) : written[i] = lib
            /\ IsSubsequence(body, subst)
            /\ Len(body) = Cardinality({i \in 1..Len(subst) : good(subst[i])})
            /\ body # written => written[Len(written)] = lib

\* An ELF whose RPATH held an entry outside the prefix and an $ORIGIN entry:
\* the first is dropped, the second kept, <new_prefix>/lib appended.
C20_Witness ==
    /\ rpath.done
    /\ rpath.old_rpaths = << <<"/usr", "/lib">>, <<"$ORIGIN", "/..", "/lib">> >>
    /\ rpath.runpath = <<"$ORIGIN", "/..", "/lib", ":">> \o rpath.prefix \o <<"/lib">>

\* The version directories of the glibc keg, and those among them whose
\* lib/ holds a linker.
VersionDirs(cellar) ==
    {v \in DOMAIN cellar.entries : cellar.entries[v].kind = "dir"}

LinkerDirs(cellar) ==
    {v \in VersionDirs(cellar) :
        cellar.entries[v].lib /\ \E f \in cellar.entries[v].files : is_ld_so(f)}

\* The linker returned lies in version directory v.
ReturnedFrom(c, v) ==
    \E f \in c.args.cellar.entries[v].files :
        is_ld_so(f) /\ c.result = <<glibc_path(c.args.prefix, v, f)>>

\* C22 as stated: None when <prefix>/Cellar/glibc is absent or holds no
\* version directory; with several version directories, the linker picked
\* is one of the lexicographically greatest version directory.
C22_GreatestVersionDirectory ==
    (call.fn = "detect_zerobrew_glibc" /\ call.done) =>
        LET dirs == VersionDirs(call.args.cellar)
        IN  /\ (~call.args.cellar.exists \/ dirs = {}) => call.result = <<>>
            /\ (Cardinality(dirs) >= 2 /\ call.result # <<>>) =>
                   \E v \in dirs :
                       /\ \A w \in dirs : VersionRank[w] <= VersionRank[v]
                       /\ ReturnedFrom(call, v)

\* C22 amended: None when no version directory has a lib/ holding a linker
\* (so also when the keg is absent or empty); otherwise a linker of the
\* lexicographically greatest version directory among those that have one.
C22_GreatestVersionWithLinker ==
    (call.fn = "detect_zerobrew_glibc" /\ call.done) =>
        LET dirs == LinkerDirs(call.args.cellar)
        IN  IF ~call.args.cellar.exists \/ dirs = {} THEN call.result = <<>>
            ELSE \E v \in dirs :
                    /\ \A w \in dirs : VersionRank[w] <= VersionRank[v]
                    /\ ReturnedFrom(call, v)

\* Three version directories, the greatest without a linker, the other two
\* with one: the linker of the middle one is returned.
C22_Witness ==
    /\ call.fn = "detect_zerobrew_glibc" /\ call.done
    /\ VersionDirs(call.args.cellar) = GlibcVersions
    /\ LinkerDirs(call.args.cellar) = {"2.35", "2.39"}
    /\ ReturnedFrom(call, "2.39")

\* The system linker: the first candidate of the list that exists.
IsSystemLinker(p, exists) ==
    \E i \in DOMAIN SystemLdCandidates :
        /\ SystemLdCandidates[i] = p
        /\ p \in exists
        /\ \A j \in 1..(i - 1) : SystemLdCandidates[j] \notin exists

\* The result is the system linker, or the interpreter is left as it was
\* when the machine has none.
SetToSystemLinker(c) ==
    IF \E i \in DOMAIN SystemLdCandidates : SystemLdCandidates[i] \in c.args.exists
    THEN c.result # <<>> /\ IsSystemLinker(c.result[1], c.args.exists)
    ELSE c.result = c.args.elf.interp

\* C21: an executable ELF (ET_EXEC, or ET_DYN with PT_INTERP) that reaches
\* the interpreter step gets: with @@HOMEBREW_PREFIX@@ in its interpreter,
\* the expanded path when that exists and else the system linker; without
\* it, the linker of the glibc keg when the keg has one and else the system
\* linker.  Any other ELF keeps its interpreter.
C21_InterpreterChoice ==
    (call.fn = "patch_interpreter" /\ call.done) =>
        LET elf == call.args.elf
            executable ==
                /\ elf.has_dynamic_segment
                /\ elf.interp # <<>>
                /\ elf.e_type \in {"ET_EXEC", "ET_DYN"}
        IN  IF ~executable THEN call.result = elf.interp
            ELSE IF \E i \in 1..Len(elf.interp[1]) :
                        elf.interp[1][i] = "@@HOMEBREW_PREFIX@@"
            THEN LET expanded ==
                         [i \in 1..Len(elf.interp[1]) |->
                             IF elf.interp[1][i] = "@@HOMEBREW_PREFIX@@"
                             THEN "/opt/zerobrew" ELSE elf.interp[1][i]]
                 IN  IF expanded \in call.args.exists
                     THEN call.result = <<expanded>>
                     ELSE SetToSystemLinker(call)
            ELSE IF LinkerDirs(call.args.cellar) # {}
                 THEN \E v \in LinkerDirs(call.args.cellar) : ReturnedFrom(call, v)
                 ELSE SetToSystemLinker(call)

\* A dynamic executable whose interpreter holds the placeholder, on a
\* machine without the expanded path but with a glibc keg and a system
\* linker: the system linker is set, not the keg's.
C21_Witness ==
    /\ call.fn = "patch_interpreter" /\ call.done
    /\ call.args.elf.e_type = "ET_DYN"
    /\ call.args.elf.has_dynamic_segment
    /\ call.args.elf.interp = << <<"@@HOMEBREW_PREFIX@@", "/lib/ld.so">> >>
    /\ <<"/opt/zerobrew", "/lib/ld.so">> \notin call.args.exists
    /\ LinkerDirs(call.args.cellar) # {}
    /\ call.result = << <<"/lib/ld-linux-aarch64.so.1">> >>

\* The offsets at which old_bytes occurs in contents followed by NUL or '/'.
BoundaryOccurrences(contents, old_bytes) ==
    {i \in 1..(Len(contents) - Len(old_bytes)) :
        /\ SubSeq(contents, i, i + Len(old_bytes) - 1) = old_bytes
        /\ contents[i + Len(old_bytes)] \in {NUL, "/"}}

Expanded(path) ==
    IF path[1] = "@@HOMEBREW_CELLAR@@" THEN <<"opt", "zerobrew", "prefix", "Cellar">> \o Tail(path)
    ELSE IF path[1] = "@@HOMEBREW_PREFIX@@" THEN <<"opt", "zerobrew", "prefix">> \o Tail(path)
    ELSE path

\* C24: a path .../ffmpeg/<SOME_VERSION>/... (the leftmost such place) with
\* SOME_VERSION other than the package's version carries the package's
\* version there afterwards and is unchanged elsewhere; a path whose
\* version is the package's, and a path without /ffmpeg/<x>/, is unchanged;
\* a second application changes nothing.
C24_VersionSelfCorrection ==
    (call.fn = "patch_path" /\ call.done) =>
        LET p == Expanded(call.args.old_path)
            q == call.result[1]
            at == {i \in 1..(Len(p) - 2) : p[i] = "ffmpeg"}
        IN  /\ Len(q) = Len(p)
            /\ at = {} => q = p
            /\ at # {} =>
                  LET i == CHOOSE i \in at : \A j \in at : i <= j
                  IN  /\ q[i + 1] = "8.0.1_2"
                      /\ \A j \in 1..Len(p) : j # i + 1 => q[j] = p[j]
            /\ Len(call.result) = 2 => call.result[2] = call.result[1]

\* @@HOMEBREW_CELLAR@@/ffmpeg/8.0.1_1/lib: the version is corrected by the
\* first application and the second leaves the path alone.
C24_Witness ==
    /\ call.fn = "patch_path"
    /\ call.args.old_path = <<"@@HOMEBREW_CELLAR@@", "ffmpeg", "8.0.1_1", "lib">>
    /\ call.result = << <<"opt", "zerobrew", "prefix", "Cellar", "ffmpeg", "8.0.1_2", "lib">>,
                        <<"opt", "zerobrew", "prefix", "Cellar", "ffmpeg", "8.0.1_2", "lib">> >>

\* C25: two kegs recorded with the same store key from the empty database
\* give that key refcount 2; a record_uninstall(name) of an installed name
\* lowers the refcount of the name's store key by exactly 1, deletes the
\* name's installed_kegs row and keg_files rows, and leaves the rows of
\* every other name and the refcount of every other key as they were.
C25_RecordUninstallFrame ==
    [][/\ (/\ txOpen /\ disk = init_schema /\ nops = 2
           /\ DOMAIN tx.kegs = Names
           /\ tx.kegs["foo"].store_key = tx.kegs["bar"].store_key)
          => get_store_refcount(tx, tx.kegs["foo"].store_key) = 2
       /\ \A n \in Names :
             (txOpen /\ txOpen' /\ n \in DOMAIN tx.kegs /\ n \notin DOMAIN tx'.kegs) =>
                LET key == tx.kegs[n].store_key
                IN  /\ get_store_refcount(tx', key) = get_store_refcount(tx, key) - 1
                    /\ get_installed(tx', n) = <<>>
                    /\ \A nf \in DOMAIN tx'.files : nf[1] # n
                    /\ \A o \in Names \ {n} :
                          /\ get_installed(tx', o) = get_installed(tx, o)
                          /\ \A p \in Paths :
                                /\ (<<o, p>> \in DOMAIN tx'.files) = (<<o, p>> \in DOMAIN tx.files)
                                /\ <<o, p>> \in DOMAIN tx.files =>
                                      tx'.files[<<o, p>>] = tx.files[<<o, p>>]
                    /\ \A k \in Keys \ {key} :
                          get_store_refcount(tx', k) = get_store_refcount(tx, k)
                    /\ DOMAIN tx'.refs = DOMAIN tx.refs]_vars

\* foo and bar share key1 with refcount 2 and foo has a keg_files row; then
\* foo is uninstalled: bar's row stays and key1 has refcount 1.
C25_Witness ==
    /\ txOpen /\ nops = 2
    /\ disk.kegs # EmptyFn /\ DOMAIN disk.kegs = Names
    /\ disk.kegs["foo"].store_key = "key1" /\ disk.kegs["bar"].store_key = "key1"
    /\ get_store_refcount(disk, "key1") = 2
    /\ <<"foo", "bin/tool">> \in DOMAIN disk.files
    /\ DOMAIN tx.kegs = {"bar"}
    /\ DOMAIN tx.files = {}
    /\ get_store_refcount(tx, "key1") = 1

\* The record_install calls of the history made for name n.
InstallsOf(history, n) == {i \in 1..Len(history) : history[i][1] = n}

\* C26: installed_kegs holds at most one row per name, and that row carries
\* the version and the store key of the most recent record_install made for
\* the name.
C26_OneRowPerName ==
    call.fn = "installed_kegs" =>
        \A n \in Names :
            LET rows == {i \in 1..Len(call.result.kegs) : call.result.kegs[i].name = n}
                made == InstallsOf(call.args, n)
            IN  /\ Cardinality(rows) <= 1
                /\ (rows = {}) = (made = {})
                /\ \A i \in rows :
                      LET latest == CHOOSE m \in made : \A o \in made : o <= m
                      IN  /\ call.result.kegs[i].version = call.args[latest][2]
                          /\ call.result.kegs[i].store_key = call.args[latest][3]

\* foo installed as 1.0.0, then bar, then foo again as 2.0.0 with another
\* key: two rows, foo's with the second version and key.
C26_Witness ==
    /\ call.fn = "installed_kegs"
    /\ call.args = << <<"foo", "1.0.0", "key1">>, <<"bar", "1.0.0", "key1">>,
                      <<"foo", "2.0.0", "key2">> >>
    /\ Len(call.result.kegs) = 2
    /\ \E i \in 1..2 : /\ call.result.kegs[i].name = "foo"
                       /\ call.result.kegs[i].version = "2.0.0"
                       /\ call.result.kegs[i].store_key = "key2"

\* C27: list_installed returns every row of installed_kegs exactly once, in
\* ascending order of the names, whatever the order of the record_install
\* calls was.
C27_ListSortedByName ==
    (call.fn = "installed_kegs" /\ call.done) =>
        LET listed == call.result.listed
            kegs == call.result.kegs
        IN  /\ Len(listed) = Len(kegs)
            /\ \A i \in 1..Len(kegs) :
                  Cardinality({j \in 1..Len(listed) : listed[j] = kegs[i]}) = 1
            /\ \A i \in 1..(Len(listed) - 1) :
                  NameRank[listed[i].name] < NameRank[listed[i + 1].name]

\* foo recorded before bar: the listing has bar first.
C27_Witness ==
    /\ call.fn = "installed_kegs" /\ call.done
    /\ call.args = << <<"foo", "1.0.0", "key1">>, <<"bar", "2.0.0", "key2">> >>
    /\ Len(call.result.listed) = 2
    /\ call.result.listed[1].name = "bar"
    /\ call.result.listed[2].name = "foo"

\* C28: between transactions, the keg directory of every InstalledKeg
\* exists, failures of install and uninstall steps included.
C28_InstalledKegHasDirectory ==
    ~txOpen =>
        \A n \in DOMAIN disk.kegs : <<n, disk.kegs[n].version>> \in kegDirs

\* C29: an invocation of info, gc or list ends with exit code 0 or with
\* exit code 1, whatever the length of the store keys in the database.
C29_ExitCodeZeroOrOne ==
    (call.fn = "main" /\ call.done) => call.result[1] \in {0, 1}

\* C30: every package is in exactly one of formulas, non_core_formulas and
\* casks, each list in input order; formulas holds exactly the packages
\* that are no cask and have the tap homebrew/core, and a JSON formula
\* without a tap is among them.
C30_CategorizePartitions ==
    (call.fn = "get_homebrew_packages" /\ call.done) =>
        LET all == call.result[1]
            r == call.result[2]
            named == SelectSeq(call.args.json, LAMBDA e : e.name # <<>>)
        IN  /\ Len(r.formulas) + Len(r.non_core_formulas) + Len(r.casks) = Len(all)
            /\ \A i \in 1..Len(all) :
                  /\ (\E j \in 1..Len(r.non_core_formulas) : r.non_core_formulas[j] = all[i])
                        <=> (~all[i].is_cask /\ all[i].tap # "homebrew/core")
                  /\ (\E j \in 1..Len(r.formulas) : r.formulas[j] = all[i])
                        <=> (~all[i].is_cask /\ all[i].tap = "homebrew/core")
                  /\ (\E j \in 1..Len(r.casks) : r.casks[j] = all[i]) <=> all[i].is_cask
            /\ IsSubsequence(r.formulas, all)
            /\ IsSubsequence(r.non_core_formulas, all)
            /\ IsSubsequence(r.casks, all)
            /\ \A i \in 1..Len(named) :
                  named[i].tap = <<>> =>
                      \E j \in 1..Len(r.formulas) :
                          /\ r.formulas[j].name = named[i].name[1]
                          /\ r.formulas[j].tap = "homebrew/core"

\* php without a tap, git from homebrew/php and one cask: php is the
\* migratable formula.
C30_Witness ==
    /\ call.fn = "get_homebrew_packages" /\ call.done
    /\ call.args.json = << [name |-> <<"php">>, tap |-> <<>>],
                           [name |-> <<"git">>, tap |-> <<"homebrew/php">>] >>
    /\ call.args.casks = <<"visual-studio-code">>
    /\ Len(call.result[2].formulas) = 1
    /\ call.result[2].formulas[1].name = "php"
    /\ Len(call.result[2].non_core_formulas) = 1
    /\ Len(call.result[2].casks) = 1

\* C31: when the ELF pass and the text pass are done with the files of a
\* new keg, every file has the permission bits it had before the passes,
\* the files a pass left through an early exit included.
C31_ModeRestoredOnEveryExit ==
    [][(last' = "materialize" /\ ~has_keg(kegTree, matArgs'[1], matArgs'[2])) =>
          \A f \in BottleFiles(matArgs'[3]) :
              inodes'[kegTree'[<<matArgs'[1], matArgs'[2]>>][f]].mode =
                  inodes[StoreInode(matArgs'[3], f)].mode]_vars

\* C32: remove_keg(name, version) returning Ok has changed nothing when the
\* keg was absent; otherwise the keg directory is gone, every other entry
\* of Cellar/<name>/ and every other name's directory is as before, and
\* Cellar/<name>/ is gone exactly when nothing else was in it.
C32_RemoveKegFrame ==
    (call.fn = "remove_keg" /\ call.done /\ call.result[1].ok) =>
        LET before == call.args.cellar
            after == call.result[1].cellar
            n == call.args.name
            v == call.args.version
        IN  IF n \notin DOMAIN before \/ v \notin before[n] THEN after = before
            ELSE /\ \A o \in Names \ {n} :
                       /\ (o \in DOMAIN after) = (o \in DOMAIN before)
                       /\ o \in DOMAIN before => after[o] = before[o]
                 /\ (n \in DOMAIN after) = (before[n] # {v})
                 /\ n \in DOMAIN after => after[n] = before[n] \ {v}

\* foo has 1.0.0 and 2.0.0, bar has 1.0.0; remove_keg(foo, 1.0.0) leaves
\* foo/2.0.0 and bar/1.0.0.
C32_Witness ==
    /\ call.fn = "remove_keg" /\ call.done /\ call.result[1].ok
    /\ call.args.name = "foo" /\ call.args.version = "1.0.0"
    /\ DOMAIN call.args.cellar = {"foo", "bar"}
    /\ call.args.cellar["foo"] = {"1.0.0", "2.0.0"}
    /\ call.args.cellar["bar"] = {"1.0.0"}
    /\ DOMAIN call.result[1].cellar = {"foo", "bar"}
    /\ call.result[1].cellar["foo"] = {"2.0.0"}
    /\ call.result[1].cellar["bar"] = {"1.0.0"}

\* The content holds no placeholder token and, on macOS, no hard-coded
\* Homebrew prefix.
NothingToReplace(os, content) ==
    /\ \A t \in Placeholders : ~contains(content, <<t>>)
    /\ os = "macos" =>
           \A i \in 1..Len(HOMEBREW_PREFIXES) : ~contains(content, HOMEBREW_PREFIXES[i])

\* C33: the text pass leaves content and mode of an entry as they were when
\* the entry is a symbolic link, when the file has a NUL byte in its first
\* 8 KiB, when it is not valid UTF-8, or when it holds no placeholder token
\* (nor, on macOS, a hard-coded Homebrew prefix).
C33_TextPassSkips ==
    (call.fn = "text_pass_entry" /\ call.done) =>
        LET a == call.args
        IN  (\/ a.kind = "symlink"
             \/ contains(a.content, <<NulByte>>)
             \/ contains(a.content, <<InvalidUtf8>>)
             \/ NothingToReplace(a.platform, a.content)) =>
                /\ call.result[1].content = a.content
                /\ call.result[1].mode = a.mode

\* A read-only file with a placeholder token after a NUL byte went through
\* the pass.
C33_Witness ==
    /\ call.fn = "text_pass_entry" /\ call.done
    /\ call.args.kind = "file"
    /\ call.args.content = <<NulByte, "@@HOMEBREW_PREFIX@@">>
    /\ call.args.mode = {"x"}
    /\ call.args.write_ok
    /\ call.result[1].content = call.args.content

\* C34: a materialize that returns Ok for (name, version), the keg absent
\* before the call or left behind by a failed materialize of the same
\* arguments, leaves a keg that holds every entry of the source root and no
\* file the relocation has still to rewrite.
C34_SuccessMeansCompleteKeg ==
    [][(/\ last' = "materialize"
        /\ \/ ~has_keg(kegTree, matArgs'[1], matArgs'[2])
           \/ last = "materialize_failed" /\ matArgs = matArgs') =>
          LET tree == kegTree'[<<matArgs'[1], matArgs'[2]>>]
          IN  /\ DOMAIN tree = DOMAIN Bottle[matArgs'[3]]
              /\ \A f \in BottleFiles(matArgs'[3]) :
                     inodes'[tree[f]].content \notin {"elf_dyn", "text_ph"}]_vars

\* C35: when the ELF pass has returned with no counted failure, every
\* collected path of the keg, hardlinks of one file included, names a
\* patched ELF.
C35_EveryPathPatched ==
    (platform = "linux" /\ passResult = "ok" /\ patch_failures = 0) =>
        \A p \in CollectedPaths : data[pathIno[p]][1] = "patched"

\* The NUL-terminated string that starts at offset i of contents.
CStringAt(contents, i) ==
    LET ends == {j \in i..Len(contents) : contents[j] = NUL}
        stop == IF ends = {} THEN Len(contents) + 1
                ELSE CHOOSE j \in ends : \A e \in ends : j <= e
    IN  SubSeq(contents, i, stop - 1)

\* C36: an embedded NUL-terminated string old_prefix + suffix (suffix empty
\* or starting with '/') reads new_prefix + suffix at the same offset after
\* the pass, for every new prefix that is not longer than old_prefix.
C36_EmbeddedPathUnderNewPrefix ==
    (call.fn = "patch_macho_binary_strings" /\ call.done) =>
        LET new == call.args.new_prefix
            contents == call.args.contents
            final == call.result[Len(call.result)]
        IN  \A k \in 1..4 : \A i \in 1..Len(contents) :
                LET old == HOMEBREW_PREFIX_BYTES[k]
                    s == CStringAt(contents, i)
                IN  (/\ Len(new) <= Len(old)
                     /\ i = 1 \/ contents[i - 1] = NUL
                     /\ \E j \in i..Len(contents) : contents[j] = NUL
                     /\ starts_with(s, old)
                     /\ Len(s) = Len(old) \/ s[Len(old) + 1] = "/") =>
                        CStringAt(final, i) = new \o SubSeq(s, Len(old) + 1, Len(s))

\* C37: in the committed database every keg_files row belongs to an
\* installed keg: its name has an installed_kegs row and its version is
\* that row's version.
C37_LinkedFilesOfInstalledKegs ==
    \A nf \in DOMAIN disk.files :
        /\ nf[1] \in DOMAIN disk.kegs
        /\ disk.files[nf].version = disk.kegs[nf[1]].version

\* C38: record_uninstall(name) for a name without installed_kegs row
\* returns None and leaves installed_kegs and every refcount of store_refs
\* as they were.
C38_UninstallOfAbsentName ==
    [][\A n \in Names :
          (/\ txOpen /\ txOpen' /\ nops' = nops + 1
           /\ n \notin DOMAIN tx.kegs
           /\ tx' = record_uninstall(tx, n)) =>
              /\ uninstall_result(tx, n) = <<>>
              /\ tx'.kegs = tx.kegs
              /\ tx'.refs = tx.refs
              /\ \A k \in Keys : get_store_refcount(tx', k) = get_store_refcount(tx, k)]_vars

\* foo is installed with refcount 1 on its key; the one call made in the
\* open transaction, record_uninstall(bar), has left every table as it was.
C38_Witness ==
    /\ txOpen /\ nops = 1
    /\ tx = disk
    /\ DOMAIN disk.kegs = {"foo"}
    /\ get_store_refcount(disk, disk.kegs["foo"].store_key) = 1
    /\ disk.files = EmptyFn

\* C39: whenever `brew uninstall` has been run for a formula, that
\* formula's plan and execute returned Ok before it, the install attempt of
\* every listed formula came before it and none comes after, no plan or
\* execute of that formula returned Err, some formula was migrated, and the
\* user passed --yes or answered "y" at both prompts.
C39_BrewUninstallAfterMigration ==
    call.fn = "migrate" =>
        LET log == call.result.log
            a == call.args
            installs(s) == {j \in s : log[j].op = "plan"}
        IN  \A u \in 1..Len(log) :
                log[u].op = "brew_uninstall" =>
                    /\ \E p, e \in 1..(u - 1) :
                          /\ p < e
                          /\ log[p] = [op |-> "plan", name |-> log[u].name, ok |-> TRUE]
                          /\ log[e] = [op |-> "execute", name |-> log[u].name, ok |-> TRUE]
                    /\ Cardinality(installs(1..(u - 1))) = Len(a.formulas)
                    /\ \A j \in u..Len(log) : log[j].op = "brew_uninstall"
                    /\ \A j \in 1..Len(log) :
                          log[j].name = log[u].name => log[j].op = "brew_uninstall" \/ log[j].ok
                    /\ call.result.success_count > 0
                    /\ a.yes \/ (a.continue_answer /\ a.uninstall_answer)

\* foo failed to install and bar was installed; the user confirmed both
\* prompts; migrate has returned having run `brew uninstall bar` only.
C39_Witness ==
    /\ call.fn = "migrate" /\ call.done
    /\ ~call.args.yes /\ ~call.args.force
    /\ call.args.formulas = <<"foo", "bar">>
    /\ call.args.outcome = <<"execute_err", "ok">>
    /\ call.result.log =
          << [op |-> "plan", name |-> "foo", ok |-> TRUE],
             [op |-> "execute", name |-> "foo", ok |-> FALSE],
             [op |-> "plan", name |-> "bar", ok |-> TRUE],
             [op |-> "execute", name |-> "bar", ok |-> TRUE],
             [op |-> "brew_uninstall", name |-> "bar", ok |-> TRUE,
              args |-> <<"uninstall", "bar">>] >>

====
